---- MODULE Spec2Model ----
(***************************************************************************)
(* Messaging core of IARA: the in-process MessageBroker (publish/subscribe *)
(* plus correlated one-shot response handlers), the BaseAgent runtime      *)
(* (inbox, processing loop, send_message_and_wait) and the                 *)
(* OrchestratorAgent (registry, built-in actions, route, prefix dispatch). *)
(*                                                                         *)
(* Threads of control: the caller threads (UI code that calls              *)
(* send_message_and_wait) and one processing-loop thread per agent, named  *)
(* after the agent.  Every step of a thread runs up to and including its   *)
(* next access to shared state (a `with self.lock` block of the broker, a  *)
(* put/get on an inbox queue, a subscriber callback).                      *)
(***************************************************************************)
EXTENDS Integers, Naturals, Sequences, FiniteSets, TLC

\* ---------------------------------------------------------------- bounds
\* Timer ticks after which response_event.wait(timeout) gives up.
TimeoutTicks == 1
\* Longest subscriber list the environment builds for one identity.
MaxSubs == 2
\* Threads that call start() of one agent at the same time.
MaxStarters == 2
\* Readings the clock goes through.
MaxClock == 2
\* Most chunks one document gets indexed with.
MaxChunks == 3
\* Last reading of time.time().
MaxTime == 600
\* Largest component, in absolute value, of the vectors compared.
MaxComponent == 1
\* Most messages in the history of a session.
MaxHistory == 4

\* ------------------------------------------------------------- constants
\* schema.AgentType
AgentType == {"orchestrator", "llm", "document_processing",
              "information_retrieval", "dialogue", "security"}
\* schema.MessageType
MessageType == {"command", "response", "error", "event", "data"}
\* The agent objects that exist (AgentFactory.create_agent was called).
Agents == {"orchestrator", "dialogue"}
\* Threads outside the agents (UI code) that call send_message_and_wait.
CallerThreads == {"t1", "t2"}
\* The process_messages threads: the one start() creates for an agent is
\* named after the agent; a start() that finds the previous thread of the
\* agent still alive creates a second one.
Spares == {"dialogue_2"}
LoopThreads == Agents \cup Spares
Owner(l) == IF l \in Agents THEN l ELSE "dialogue"
Threads == CallerThreads \cup LoopThreads
\* Callbacks handed to subscribe(): an agent's bound receive_message is
\* named after the agent; the other two are plain callables, one of which
\* raises when it is invoked.
PlainCallbacks == {"cb_ok", "cb_raise"}
Callbacks == Agents \cup PlainCallbacks
Raises(cb) == cb = "cb_raise"
\* Handlers handed to register_response_handler(): the one of a caller in
\* send_message_and_wait is named after the caller's thread; the other two
\* are plain callables, one of which raises when it is invoked.
PlainHandlers == {"h_ok", "h_raise"}
HandlerRaises(h) == h = "h_raise"

\* -------------------------------------------------------------- messages
NoId == <<>>
Content(action, target_agent, payload, agent_type, error) ==
    [action |-> action, target_agent |-> target_agent, payload |-> payload,
     agent_type |-> agent_type, error |-> error]
NoContent == Content(<<>>, "none", <<>>, "none", "none")
\* schema.Message; id is the unique token made at construction.
Message(id, sender, receiver, message_type, priority, content, correlation_id) ==
    [id |-> id, sender |-> sender, receiver |-> receiver,
     message_type |-> message_type, priority |-> priority,
     content |-> content, correlation_id |-> correlation_id]
None == Message(NoId, "none", "none", "none", "none", NoContent, NoId)

\* An action name is a sequence of tokens cut at the boundaries of the
\* prefixes of the dispatch table; startswith is the sequence prefix.
\* A match of the prefix anywhere in the name.
startswith_anywhere(action, prefix) ==
    \E i \in 1..Len(action) :
        /\ i + Len(prefix) - 1 <= Len(action)
        /\ SubSeq(action, i, i + Len(prefix) - 1) = prefix

startswith(action, prefix) ==
    /\ Len(action) >= Len(prefix)
    /\ SubSeq(action, 1, Len(prefix)) = prefix

VARIABLES
    subscribers,        \* MessageBroker.subscribers: identity -> list of callbacks
    response_handlers,  \* MessageBroker.response_handlers: correlation id -> handler
    running,            \* BaseAgent.running
    starting,           \* number of start() calls past the `if self.running` check
    thread,             \* BaseAgent.thread: the loop thread start() made last, or "none"
    loopPc,             \* position of each process_messages thread
    stopping,           \* a stop() call is between clearing the flag and unsubscribing
    inbox,              \* BaseAgent.inbox
    cur,                \* the message the loop has dequeued and not yet handled
    registered_agents,  \* OrchestratorAgent.registered_agents (its keys)
    pub,                \* per thread: the publish() call in progress
    callerPc,           \* per caller: position in send_message_and_wait
    callerMsg,          \* per caller: the message passed to send_message_and_wait
    event,              \* per caller: response_event
    container,          \* per caller: response_container["response"]
    result,             \* per caller: the value send_message_and_wait returned
    timer,              \* per caller: ticks waited in response_event.wait
    now,                \* the reading of the clock (datetime.now())
    published,          \* history: every message handed to publish(), with its origin
    invoked,            \* history: every handler / callback invocation
    returns,            \* history: how each publish() call ended
    handled,            \* history: ids whose handle_message call has completed
    noneAfterHandled,   \* history: callers whose wait timed out after the handler completed
    taken,              \* history: ids in the order publish() read their subscriber list
    seen,               \* history: per callback, the ids in the order it was invoked
    passed,             \* history: per agent, the ids passed to handle_message, in order
    late                \* history: per agent, the ids enqueued since running was last cleared

\* The retrieval agent and its vector store.
VARIABLES
    documents,          \* VectorRetriever.documents: document id -> list of chunks, in insertion order
    vectors,            \* VectorRetriever.vectors: document id -> chunk id -> embedding
    query_cache,        \* InformationRetrievalAgent.query_cache: key -> results and timestamp
    clock,              \* the reading of time.time()
    request,            \* history: the Command content the retrieval agent handled last
    answer,             \* history: the reply the handler sent for it
    origin,             \* history: per cache key, the results sent when its entry was written
    removed             \* history: the ids remove_document was handled for and that were not indexed since

VARIABLES
    sessions,           \* DialogueAgent.sessions: session id -> ChatSession
    command,            \* history: the Command content the dialogue agent handled last
    reply               \* history: the message the handler sent back for it

dialogueVars == <<sessions, command, reply>>

\* The state manager and the threads that call it.
VARIABLES
    state,              \* StateManager._state, a tree of dicts
    lock,               \* StateManager._lock: the thread that holds it, or "free"
    frames              \* per thread: its stack of StateManager calls, innermost last

stateVars == <<state, lock, frames>>

\* The threads that call the state manager.
StateThreads == {"w1", "w2"}

\* Python values, tagged by their type: None, a str, a list, a dict.
NoValue == [none |-> "None"]
Scalar(v) == [scalar |-> v]
List(items) == [list |-> items]
Dict(items) == [dict |-> items]
IsDict(v) == DOMAIN v = {"dict"}
IsList(v) == DOMAIN v = {"list"}

\* StateManager.__init__: five empty sections, the lock free.
InitState ==
    /\ state = Dict([k \in {"users", "documents", "chat_sessions", "agent_statuses",
                            "system_preferences"} |-> Dict([x \in {} |-> x])])
    /\ lock = "free"
    /\ frames = [t \in StateThreads |-> <<>>]

\* The dialogue agent after construction: no session.
InitDialogue ==
    /\ sessions = <<>>
    /\ command = [action |-> "none"]
    /\ reply = [type |-> "none", retrieval |-> "not_called"]

retrievalVars == <<documents, vectors, query_cache, clock, request, answer, origin,
                   removed>>

\* The retrieval agent after construction: nothing indexed, nothing cached.
InitRetrieval ==
    /\ documents = <<>>
    /\ vectors = <<>>
    /\ query_cache = <<>>
    /\ clock = 0
    /\ request = [action |-> "none"]
    /\ answer = [type |-> "none"]
    /\ origin = <<>>
    /\ removed = {}

brokerVars == <<subscribers, response_handlers>>
agentVars == <<running, starting, thread, loopPc, stopping, inbox, cur>>
callerVars == <<callerPc, callerMsg, event, container, result, timer, now,
                retrievalVars, dialogueVars, stateVars>>
histVars == <<published, invoked, returns, handled, noneAfterHandled, taken, seen,
             passed, late>>
\* Everything outside the retrieval agent.
messagingVars == <<brokerVars, agentVars, registered_agents, pub, callerPc,
                   callerMsg, event, container, result, timer, now, histVars>>

vars == <<subscribers, response_handlers, running, starting, thread, loopPc, stopping,
          inbox, cur, registered_agents, pub, callerPc, callerMsg, event,
          container, result, timer, now, published, invoked, returns, handled,
          noneAfterHandled, taken, seen, passed, late, documents, vectors, query_cache,
          clock, request, answer, origin, removed, sessions, command, reply, state,
          lock, frames>>

IdlePub == [phase |-> "idle", msg |-> None, subs |-> <<>>, idx |-> 0,
            live |-> FALSE, re |-> NoId]

InitMessaging ==
    /\ subscribers = <<>>
    /\ response_handlers = <<>>
    /\ running = [a \in Agents |-> FALSE]
    /\ starting = [a \in Agents |-> 0]
    /\ thread = [a \in Agents |-> "none"]
    /\ loopPc = [l \in LoopThreads |-> "dead"]
    /\ stopping = [a \in Agents |-> FALSE]
    /\ inbox = [a \in Agents |-> <<>>]
    /\ cur = [l \in LoopThreads |-> None]
    /\ registered_agents = {}
    /\ pub = [t \in Threads |-> IdlePub]
    /\ callerPc = [t \in CallerThreads |-> "idle"]
    /\ callerMsg = [t \in CallerThreads |-> None]
    /\ event = [t \in CallerThreads |-> FALSE]
    /\ container = [t \in CallerThreads |-> None]
    /\ result = [t \in CallerThreads |-> None]
    /\ timer = [t \in CallerThreads |-> 0]
    /\ now = 1
    /\ published = {}
    /\ invoked = {}
    /\ passed = [a \in Agents |-> <<>>]
    /\ late = [a \in Agents |-> {}]
    /\ returns = {}
    /\ handled = {}
    /\ noneAfterHandled = {}
    /\ taken = <<>>
    /\ seen = [cb \in Callbacks |-> <<>>]

Init == InitMessaging /\ InitRetrieval /\ InitDialogue /\ InitState

\* ------------------------------------------------------- broker: tables
\* MessageBroker.subscribe, the table it leaves.
Subscribed(table, agent_type, callback) ==
    IF agent_type \notin DOMAIN table
    THEN [a \in DOMAIN table \cup {agent_type} |->
            IF a = agent_type THEN <<callback>> ELSE table[a]]
    ELSE [table EXCEPT ![agent_type] = Append(@, callback)]

Without(list, callback) ==
    SelectSeq(list, LAMBDA cb : cb # callback)

\* An unsubscribe that removes nothing.
Unsubscribed_keep(table, agent_type, callback) == table

\* MessageBroker.unsubscribe, the table it leaves; callback "all" stands for
\* the call without a callback argument.
Unsubscribed(table, agent_type, callback) ==
    IF agent_type \notin DOMAIN table
    THEN table
    ELSE IF callback # "all"
         THEN [table EXCEPT ![agent_type] = Without(@, callback)]
         ELSE [table EXCEPT ![agent_type] = <<>>]

\* self.subscribers.get(message.receiver, [])
GetSubscribers(table, receiver) ==
    IF receiver \in DOMAIN table THEN table[receiver] ELSE <<>>

\* A registration that comes too late for the table the publish sees.
Registered_never(table, correlation_id, handler) == table

\* MessageBroker.register_response_handler, the table it leaves.
Registered(table, correlation_id, handler) ==
    [c \in DOMAIN table \cup {correlation_id} |->
        IF c = correlation_id THEN handler ELSE table[c]]

\* An unregister that removes nothing.
Unregistered_noop(table, correlation_id) == table

\* MessageBroker.unregister_response_handler, the table it leaves.
Unregistered(table, correlation_id) ==
    [c \in DOMAIN table \ {correlation_id} |-> table[c]]

\* publish() iterates the list object it read from the table: subscribe()
\* appends to that object in place, unsubscribe() puts a new list in the
\* table and leaves the old object to the iterating thread.
PubAfterSubscribe(agent_type, callback) ==
    [t \in Threads |->
        IF pub[t].phase = "deliver" /\ pub[t].live
           /\ pub[t].msg.receiver = agent_type
        THEN [pub[t] EXCEPT !.subs = Append(@, callback)]
        ELSE pub[t]]

PubAfterUnsubscribe(agent_type) ==
    [t \in Threads |->
        IF pub[t].phase = "deliver" /\ pub[t].msg.receiver = agent_type
           /\ agent_type \in DOMAIN subscribers
        THEN [pub[t] EXCEPT !.live = FALSE]
        ELSE pub[t]]

\* ------------------------------------------------------ broker: publish
IsCorrelatedReply(m) ==
    /\ m.message_type \in {"response", "error"}
    /\ m.correlation_id # NoId

\* The callers blocked in send_message_and_wait whose event is not yet set.
Outstanding ==
    {t \in CallerThreads : callerPc[t] = "inflight" /\ ~event[t]}

\* A thread enters publish(message); re is the id of the message whose
\* handling made the thread publish (NoId for a caller's own request).
EnterPublish(t, m, re) ==
    [pub EXCEPT ![t] = [phase |-> IF IsCorrelatedReply(m) THEN "check" ELSE "lookup",
                        msg |-> m, subs |-> <<>>, idx |-> 0,
                        live |-> FALSE, re |-> re]]

ReturnRecord(t, how, exc) ==
    [msg |-> pub[t].msg, by |-> t, how |-> how, subs |-> pub[t].subs, exc |-> exc]

\* publish() returns to its caller: an agent's loop has then finished
\* handling the message it had dequeued.
HandledAfterReturn(t) ==
    IF t \in LoopThreads /\ pub[t].re # NoId THEN handled \cup {pub[t].re} ELSE handled

\* A lookup that takes whatever handler is registered, not the one under the key.
HandlerFor_any(table, correlation_id) ==
    table[CHOOSE c \in DOMAIN table : \A d \in DOMAIN table : c = d \/ c # correlation_id]

\* self.response_handlers.get(message.correlation_id)
HandlerFor(table, correlation_id) == table[correlation_id]

\* publish() without the `return` after handler(message).
ReturnsAfterHandler_fallthrough == FALSE

\* The `return` after handler(message): publish ends there.
ReturnsAfterHandler == TRUE

\* A broker that ends publish() when a reply finds no handler.
UnroutedReplyPhase_drop == "idle"

\* Without a registered handler a reply falls through to the lookup of the
\* receiver's subscribers, like any message.
UnroutedReplyPhase == "lookup"

\* ------------------------------------------------- agent runtime: sending
\* BaseAgent.send_response: the Response to a received message.
send_response(self, original_message, content) ==
    Message(Append(original_message.id, "r"), self, original_message.sender,
            "response", "medium", content, original_message.id)

\* BaseAgent.send_error: the Error message; id is the new message's id.
send_error(self, id, receiver, error, correlation_id) ==
    Message(id, self, receiver, "error", "medium",
            Content(<<>>, "none", <<>>, "none", error), correlation_id)

Publish(m) == [kind |-> "publish", msg |-> m]
Nothing == [kind |-> "nothing", msg |-> None]
Raise == [kind |-> "raise", msg |-> None]

\* An except branch that only logs.
AfterRaise_silent(self, message) == Nothing

\* BaseAgent.process_messages, the except branch around handle_message:
\* a Command whose handling raised is answered with an Error.
AfterRaise(self, message) ==
    IF message.message_type = "command"
    THEN Publish(send_error(self, Append(message.id, "r"), message.sender,
                            "error_processing_command", message.id))
    ELSE Nothing

\* handler(message) for a plain handler, called inside publish() with nothing
\* around it: when the handler raises, the exception leaves publish() and,
\* in an agent's loop, handle_message; the except branch of process_messages
\* then sends its Error for the Command, and when that publish raises too the
\* outer except of the loop logs it.
PlainHandlerCalled(t, h) ==
    LET m == pub[t].msg
        error == AfterRaise(m.sender, [id |-> m.correlation_id, sender |-> m.receiver,
                                       message_type |-> "command"]) IN
    /\ invoked' = invoked \cup {[msg |-> m.id, via |-> "handler", to |-> h,
                                 state |-> "none", pending |-> Outstanding]}
    /\ returns' = returns \cup {ReturnRecord(t, "handler", HandlerRaises(h))}
    /\ IF HandlerRaises(h) /\ t \in LoopThreads /\ m # error.msg
       THEN /\ pub' = EnterPublish(t, error.msg, pub[t].re)
            /\ published' = published \cup
                  {[msg |-> error.msg, by |-> Owner(t), re |-> pub[t].re,
                    raised |-> TRUE, pending |-> {}]}
            /\ UNCHANGED handled
       ELSE /\ pub' = [pub EXCEPT ![t] = IdlePub]
            /\ handled' = HandledAfterReturn(t)
            /\ UNCHANGED published
    /\ UNCHANGED <<container, event>>

\* publish(), first lock block: a Response/Error with a correlation id and a
\* registered handler goes to that handler and publish returns.
PublishCheck(t) ==
    /\ pub[t].phase = "check"
    /\ LET m == pub[t].msg IN
       IF m.correlation_id \in DOMAIN response_handlers
       THEN LET h == HandlerFor(response_handlers, m.correlation_id) IN
            IF h \in CallerThreads
            THEN /\ container' = [container EXCEPT ![h] = m]
                 /\ event' = [event EXCEPT ![h] = TRUE]
                 /\ invoked' = invoked \cup {[msg |-> m.id, via |-> "handler", to |-> h,
                                              state |-> callerPc[h],
                                              pending |-> Outstanding \ {h}]}
                 /\ IF ReturnsAfterHandler
                    THEN /\ returns' = returns \cup {ReturnRecord(t, "handler", FALSE)}
                         /\ handled' = HandledAfterReturn(t)
                         /\ pub' = [pub EXCEPT ![t] = IdlePub]
                    ELSE /\ pub' = [pub EXCEPT ![t].phase = "lookup"]
                         /\ UNCHANGED <<returns, handled>>
                 /\ UNCHANGED published
            ELSE PlainHandlerCalled(t, h)
       ELSE /\ pub' = [pub EXCEPT ![t].phase = UnroutedReplyPhase]
            /\ UNCHANGED <<container, event, invoked, returns, handled, published>>
    /\ UNCHANGED <<brokerVars, agentVars, registered_agents, callerPc, callerMsg,
                   result, timer, now, retrievalVars, dialogueVars, stateVars, noneAfterHandled, taken, seen, passed, late>>

\* A lookup that inserts the missing key (setdefault instead of get).
TableAfterLookup_setdefault(table, receiver) ==
    IF receiver \in DOMAIN table THEN table
    ELSE [a \in DOMAIN table \cup {receiver} |->
            IF a = receiver THEN <<>> ELSE table[a]]

\* The subscriber table after publish() has looked the receiver up with
\* .get(receiver, []): reading inserts nothing.
TableAfterLookup(table, receiver) == table

\* publish(), second lock block: read the subscriber list of the receiver;
\* with no subscriber the message is logged and dropped.
PublishLookup(t) ==
    /\ pub[t].phase = "lookup"
    /\ LET m == pub[t].msg
           subs == GetSubscribers(subscribers, m.receiver) IN
       /\ subscribers' = TableAfterLookup(subscribers, m.receiver)
       /\ IF subs = <<>>
          THEN /\ returns' = returns \cup {ReturnRecord(t, "dropped", FALSE)}
               /\ handled' = HandledAfterReturn(t)
               /\ pub' = [pub EXCEPT ![t] = IdlePub]
          ELSE /\ pub' = [pub EXCEPT ![t].phase = "deliver", ![t].subs = subs,
                                     ![t].idx = 1,
                                     ![t].live = (m.receiver \in DOMAIN subscribers)]
               /\ UNCHANGED <<returns, handled>>
       /\ taken' = IF subs = <<>> THEN taken ELSE Append(taken, m.id)
    /\ UNCHANGED <<response_handlers, agentVars, registered_agents, callerVars,
                   published, invoked, noneAfterHandled, seen, passed, late>>

\* BaseAgent.receive_message for an agent's callback; the plain callbacks
\* keep no state.
InboxAfterCallback(cb, m) ==
    IF cb \in Agents THEN [inbox EXCEPT ![cb] = Append(@, m)] ELSE inbox

\* receive_message while the agent's running flag is clear: the message is
\* one enqueued on a stopping or stopped agent.
LateAfterCallback(cb, m) ==
    IF cb \in Agents /\ ~running[cb] THEN [late EXCEPT ![cb] = @ \cup {m.id}] ELSE late

\* The delivery loop without its try/except.
Propagates_uncaught(cb) == TRUE

\* The try/except Exception around callback(message): does the exception a
\* callback raises leave publish()?
Propagates(cb) == FALSE

\* publish(), the delivery loop: one callback per step, an exception of the
\* callback is caught and logged; the loop ends when the list is exhausted.
PublishDeliver(t) ==
    /\ pub[t].phase = "deliver"
    /\ LET m == pub[t].msg
           i == pub[t].idx IN
       IF i <= Len(pub[t].subs)
       THEN LET cb == pub[t].subs[i] IN
            /\ inbox' = InboxAfterCallback(cb, m)
            /\ seen' = [seen EXCEPT ![cb] = Append(@, m.id)]
            /\ late' = LateAfterCallback(cb, m)
            /\ invoked' = invoked \cup {[msg |-> m.id, via |-> "callback", to |-> cb,
                                         state |-> "none", pending |-> {}]}
            /\ IF Raises(cb) /\ Propagates(cb)
               THEN /\ returns' = returns \cup {ReturnRecord(t, "delivered", TRUE)}
                    /\ handled' = HandledAfterReturn(t)
                    /\ pub' = [pub EXCEPT ![t] = IdlePub]
               ELSE /\ pub' = [pub EXCEPT ![t].idx = i + 1]
                    /\ UNCHANGED <<returns, handled>>
       ELSE /\ returns' = returns \cup {ReturnRecord(t, "delivered", FALSE)}
            /\ handled' = HandledAfterReturn(t)
            /\ pub' = [pub EXCEPT ![t] = IdlePub]
            /\ UNCHANGED <<inbox, invoked, seen, late>>
    /\ UNCHANGED <<brokerVars, running, starting, thread, loopPc, stopping, cur,
                   registered_agents, callerVars, published, noneAfterHandled, taken,
                   passed>>

\* --------------------------------------------------- agent runtime: life
\* start() and stop() of an agent are called by one controlling thread, one
\* call after the other; only start() is also called by several threads at
\* the same time (StartCheck, StartAct).

\* BaseAgent.start run in one piece, once the previous loop has exited: no
\* effect on a running agent; otherwise set the flag, subscribe
\* receive_message under the agent's identity, start the loop.
Start(a) ==
    /\ ~running[a] /\ ~stopping[a] /\ starting[a] = 0 /\ loopPc[a] = "dead"
    /\ running' = [running EXCEPT ![a] = TRUE]
    /\ subscribers' = Subscribed(subscribers, a, a)
    /\ pub' = PubAfterSubscribe(a, a)
    /\ thread' = [thread EXCEPT ![a] = a]
    /\ loopPc' = [loopPc EXCEPT ![a] = "top"]
    /\ late' = [late EXCEPT ![a] = {}]
    /\ UNCHANGED <<response_handlers, starting, stopping, inbox, cur,
                   registered_agents, callerVars, published, invoked, returns,
                   handled, noneAfterHandled, taken, seen, passed>>

\* BaseAgent.start, `if self.running: return`: a call on a running agent
\* returns and changes nothing, any other call goes on.
StartCheck(a) ==
    /\ ~stopping[a] /\ starting[a] < MaxStarters
    /\ starting' = [starting EXCEPT ![a] = IF running[a] THEN @ ELSE @ + 1]
    /\ UNCHANGED <<brokerVars, running, thread, loopPc, stopping, inbox, cur,
                   registered_agents, pub, callerVars, histVars>>

\* The thread a start() creates: the agent's first one, or the spare one
\* when the first is still alive.
FreeThreads(a) ==
    IF loopPc[a] = "dead" THEN {a}
    ELSE {l \in Spares : Owner(l) = a /\ loopPc[l] = "dead"}

\* BaseAgent.start past the check: set the flag, subscribe receive_message,
\* create and start a process_messages thread.
StartAct(a) ==
    /\ starting[a] > 0
    /\ \E l \in FreeThreads(a) :
          /\ thread' = [thread EXCEPT ![a] = l]
          /\ loopPc' = [loopPc EXCEPT ![l] = "top"]
    /\ starting' = [starting EXCEPT ![a] = @ - 1]
    /\ running' = [running EXCEPT ![a] = TRUE]
    /\ subscribers' = Subscribed(subscribers, a, a)
    /\ pub' = PubAfterSubscribe(a, a)
    /\ late' = [late EXCEPT ![a] = {}]
    /\ UNCHANGED <<response_handlers, stopping, inbox, cur, registered_agents,
                   callerVars, published, invoked, returns, handled,
                   noneAfterHandled, taken, seen, passed>>

\* BaseAgent.stop, first half: clear the flag, then join the thread (bounded).
StopBegin(a) ==
    /\ ~stopping[a] /\ starting[a] = 0
    /\ running' = [running EXCEPT ![a] = FALSE]
    /\ stopping' = [stopping EXCEPT ![a] = TRUE]
    /\ UNCHANGED <<brokerVars, starting, thread, loopPc, inbox, cur,
                   registered_agents, pub, callerVars, histVars>>

\* A join that waits for the thread however long it takes.
JoinReturns_unbounded(a) ==
    IF thread[a] = "none" THEN TRUE ELSE loopPc[thread[a]] = "dead"

\* self.thread.join(timeout=2.0) returns: there is no thread, or the thread
\* has exited, or the 2 seconds ran out; they run out only on a thread that
\* is inside handle_message, any other reaches its check of the flag within
\* the 0.1 seconds of inbox.get.
JoinReturns(a) ==
    IF thread[a] = "none" THEN TRUE ELSE loopPc[thread[a]] \in {"dead", "handle"}

\* BaseAgent.stop, second half: the join returned; forget the thread and
\* unsubscribe every callback of the identity.
StopFinish(a) ==
    /\ stopping[a] /\ JoinReturns(a)
    /\ stopping' = [stopping EXCEPT ![a] = FALSE]
    /\ thread' = [thread EXCEPT ![a] = "none"]
    /\ subscribers' = Unsubscribed(subscribers, a, "all")
    /\ pub' = PubAfterUnsubscribe(a)
    /\ UNCHANGED <<response_handlers, running, starting, loopPc, inbox, cur,
                   registered_agents, callerVars, histVars>>

\* ------------------------------------------------------------ orchestrator
\* OrchestratorAgent._dispatch_command, the prefix table.
DispatchTarget(action) ==
    IF startswith(action, <<"process_document">>) \/ startswith(action, <<"get_document">>)
    THEN "document_processing"
    ELSE IF startswith(action, <<"retrieve_">>) \/ startswith(action, <<"search_">>)
    THEN "information_retrieval"
    ELSE IF startswith(action, <<"generate_">>) \/ startswith(action, <<"translate_">>)
    THEN "llm"
    ELSE IF startswith(action, <<"auth_">>) \/ startswith(action, <<"login_">>)
    THEN "security"
    ELSE IF startswith(action, <<"chat_">>) \/ startswith(action, <<"process_user_message">>)
    THEN "dialogue"
    ELSE "none"

\* The id handed to the Message the orchestrator forwards.
ForwardId(message) == Append(message.id, "f")

\* The correlation_id the orchestrator puts on the Command it forwards.
ForwardCorrelation(message) == message.id

\* A check that finds every worker available.
InRegistry_any(target_agent, registry) == TRUE

\* `target_agent not in self.registered_agents`, negated.
InRegistry(target_agent, registry) == target_agent \in registry

\* A forward that leaves the priority to the default of Message.
ForwardPriority_default(message) == "medium"

\* priority=message.priority of the forwarded Message.
ForwardPriority(message) == message.priority

\* OrchestratorAgent._dispatch_command
dispatch_command(self, message, registry) ==
    LET action == message.content.action
        target_agent == DispatchTarget(action) IN
    IF target_agent = "none"
    THEN Publish(send_error(self, Append(message.id, "r"), message.sender,
                            "unknown_action", message.id))
    ELSE IF ~InRegistry(target_agent, registry)
    THEN Publish(send_error(self, Append(message.id, "r"), message.sender,
                            "agent_not_available", message.id))
    ELSE Publish(Message(ForwardId(message), self, target_agent, "command",
                         ForwardPriority(message), message.content,
                         ForwardCorrelation(message)))

\* A payload that is not a mapping (Message.content is a Dict).
NotAMapping == <<"#text">>

\* A Message that accepts any receiver and any content.
RoutedMessageInvalid_never(content) == FALSE

\* Message(receiver=target_agent, content=payload) fails validation when
\* target_agent is no AgentType or payload is no mapping.
RoutedMessageInvalid(content) ==
    \/ content.target_agent \notin AgentType
    \/ content.payload = NotAMapping

\* OrchestratorAgent._handle_command
handle_command(self, message, registry) ==
    LET action == message.content.action IN
    IF action = <<"ping">>
    THEN Publish(send_response(self, message, NoContent))
    ELSE IF action = <<"get_agent_status">>
    THEN IF message.content.agent_type # "none"
         THEN IF message.content.agent_type \in registry
              THEN Publish(send_response(self, message, NoContent))
              ELSE Publish(send_error(self, Append(message.id, "r"), message.sender,
                                      "agent_not_found", message.id))
         ELSE Publish(send_response(self, message, NoContent))
    ELSE IF action = <<"route">>
    THEN IF message.content.target_agent = "none"
         THEN Publish(send_error(self, Append(message.id, "r"), message.sender,
                                 "missing_target_agent", message.id))
         ELSE IF message.content.payload = <<>>
         THEN Publish(send_error(self, Append(message.id, "r"), message.sender,
                                 "missing_payload", message.id))
         ELSE IF RoutedMessageInvalid(message.content)
         THEN Raise
         ELSE Publish(Message(ForwardId(message), message.sender,
                              message.content.target_agent, "command", "medium",
                              Content(message.content.payload, "none", <<>>, "none", "none"),
                              ForwardCorrelation(message)))
    ELSE dispatch_command(self, message, registry)

\* OrchestratorAgent.handle_message: Responses are passed over, Errors are
\* logged, Events only touch the status of a registered agent.
OrchestratorHandle(self, message, registry) ==
    IF message.message_type = "command"
    THEN {handle_command(self, message, registry)}
    ELSE {Nothing}

\* handle_message of the worker agents (dialogue, llm, ...): a Command goes
\* through the action table and ends in send_response, in send_error, or in
\* an exception that leaves handle_message; other message types are ignored.
WorkerHandle(self, message) ==
    IF message.message_type = "command"
    THEN {Publish(send_response(self, message, NoContent)),
          Publish(send_error(self, Append(message.id, "r"), message.sender,
                             "handler_error", message.id)),
          Raise}
    ELSE {Nothing}

HandleOutcomes(a, message) ==
    IF a = "orchestrator"
    THEN OrchestratorHandle(a, message, registered_agents)
    ELSE WorkerHandle(a, message)

\* OrchestratorAgent.register_agent
RegisterAgent(a) ==
    /\ a \in Agents \ {"orchestrator"}
    /\ a \notin registered_agents
    /\ registered_agents' = registered_agents \cup {a}
    /\ UNCHANGED <<brokerVars, agentVars, pub, callerVars, histVars>>

\* OrchestratorAgent.unregister_agent
UnregisterAgent(a) ==
    /\ a \in registered_agents
    /\ registered_agents' = registered_agents \ {a}
    /\ UNCHANGED <<brokerVars, agentVars, pub, callerVars, histVars>>

\* ------------------------------------------------ agent runtime: the loop
\* process_messages: `while self.running`.
LoopCheck(l) ==
    /\ loopPc[l] = "top" /\ pub[l].phase = "idle"
    /\ loopPc' = [loopPc EXCEPT ![l] = IF running[Owner(l)] THEN "get" ELSE "dead"]
    /\ UNCHANGED <<brokerVars, running, starting, thread, stopping, inbox, cur,
                   registered_agents, pub, callerVars, histVars>>

\* A get that leaves the message in the queue.
InboxAfterGet_peek(queue) == queue

\* Queue.get: the queue without the message it returned.
InboxAfterGet(queue) == Tail(queue)

\* process_messages: inbox.get(timeout=0.1) returns a message.
LoopGet(l) ==
    /\ loopPc[l] = "get" /\ inbox[Owner(l)] # <<>>
    /\ cur' = [cur EXCEPT ![l] = Head(inbox[Owner(l)])]
    /\ inbox' = [inbox EXCEPT ![Owner(l)] = InboxAfterGet(@)]
    /\ loopPc' = [loopPc EXCEPT ![l] = "handle"]
    /\ UNCHANGED <<brokerVars, running, starting, thread, stopping,
                   registered_agents, pub, callerVars, histVars>>

\* process_messages: inbox.get(timeout=0.1) raises Empty.
LoopEmpty(l) ==
    /\ loopPc[l] = "get" /\ inbox[Owner(l)] = <<>>
    /\ loopPc' = [loopPc EXCEPT ![l] = "top"]
    /\ UNCHANGED <<brokerVars, running, starting, thread, stopping, inbox, cur,
                   registered_agents, pub, callerVars, histVars>>

\* A loop that an exception of handle_message leaves.
LoopAfterRaise_exit == "dead"

\* The inner try/except of process_messages: after an exception of
\* handle_message the thread is back at `while self.running`.
LoopAfterRaise == "top"

\* process_messages: handle_message(message) up to the publish() it makes
\* (its own, or the send_error of the except branch).
LoopHandle(l) ==
    /\ loopPc[l] = "handle"
    /\ \E o \in HandleOutcomes(Owner(l), cur[l]) :
         LET out == IF o.kind = "raise" THEN AfterRaise(Owner(l), cur[l]) ELSE o IN
         /\ IF out.kind = "publish"
            THEN /\ pub' = EnterPublish(l, out.msg, cur[l].id)
                 /\ published' = published \cup
                       {[msg |-> out.msg, by |-> Owner(l), re |-> cur[l].id,
                         raised |-> o.kind = "raise", pending |-> {}]}
                 /\ UNCHANGED handled
            ELSE /\ handled' = handled \cup {cur[l].id}
                 /\ UNCHANGED <<pub, published>>
         /\ loopPc' = [loopPc EXCEPT ![l] = IF o.kind = "raise"
                                            THEN LoopAfterRaise ELSE "top"]
    /\ cur' = [cur EXCEPT ![l] = None]
    /\ passed' = [passed EXCEPT ![Owner(l)] = Append(@, cur[l].id)]
    /\ UNCHANGED <<brokerVars, running, starting, thread, stopping, inbox,
                   registered_agents, callerVars, invoked, returns,
                   noneAfterHandled, taken, seen, late>>

\* ------------------------------------------------- send_message_and_wait
\* The Commands the caller threads send, with the orchestrator's identity
\* as sender as the UI components do: the first caller any of the
\* orchestrator's kinds of Command or one straight to a worker, the second
\* caller a ping or one straight to a worker.
CallerContents ==
    {Content(<<"ping">>, "none", <<>>, "none", "none"),
     Content(<<"route">>, "dialogue", <<"chat_", "x">>, "none", "none"),
     Content(<<"chat_", "x">>, "none", <<>>, "none", "none"),
     Content(<<"bogus">>, "none", <<>>, "none", "none")}
CallerMessages(t) ==
    {Message(<<t>>, "orchestrator", "orchestrator", "command", "high", c, NoId) :
        c \in IF t = "t1" THEN CallerContents
              ELSE {Content(<<"ping">>, "none", <<>>, "none", "none")}}
    \cup {Message(<<t>>, "orchestrator", "dialogue", "command", "high",
                  Content(<<"chat_", "x">>, "none", <<>>, "none", "none"), NoId)}

Waiting(t) == callerPc[t] = "inflight" /\ pub[t].phase = "idle"

\* send_message_and_wait: register the response handler under message.id,
\* then enter send_message -> publish.
Call(t) ==
    /\ callerPc[t] = "idle"
    /\ \E m \in CallerMessages(t) :
         /\ callerMsg' = [callerMsg EXCEPT ![t] = m]
         /\ response_handlers' = Registered(response_handlers, m.id, t)
         /\ pub' = EnterPublish(t, m, NoId)
         /\ published' = published \cup
               {[msg |-> m, by |-> t, re |-> NoId, raised |-> FALSE,
                 pending |-> Outstanding]}
    /\ callerPc' = [callerPc EXCEPT ![t] = "inflight"]
    /\ UNCHANGED <<subscribers, agentVars, registered_agents, event, container,
                   result, timer, now, retrievalVars, dialogueVars, stateVars, invoked, returns, handled, noneAfterHandled,
                   taken, seen, passed, late>>

\* response_event.wait(timeout): time passes while the event is not set.
Tick(t) ==
    /\ Waiting(t) /\ ~event[t] /\ timer[t] < TimeoutTicks
    /\ timer' = [timer EXCEPT ![t] = @ + 1]
    /\ UNCHANGED <<brokerVars, agentVars, registered_agents, pub, callerPc,
                   callerMsg, event, container, result, now, retrievalVars, dialogueVars, stateVars, histVars>>

\* response_event.wait returns True: return response_container["response"].
WaitSignaled(t) ==
    /\ Waiting(t) /\ event[t]
    /\ result' = [result EXCEPT ![t] = container[t]]
    /\ callerPc' = [callerPc EXCEPT ![t] = "finally"]
    /\ UNCHANGED <<brokerVars, agentVars, registered_agents, pub, callerMsg,
                   event, container, timer, now, retrievalVars, dialogueVars, stateVars, histVars>>

\* The handling of the Command with this id has run to completion: its
\* receiver's handle_message returned and, when that was the orchestrator
\* forwarding the Command, so did the target's handle_message.
ChainCompleted(id) ==
    /\ id \in handled
    /\ \A p \in published :
          (p.re = id /\ p.msg.message_type = "command") => p.msg.id \in handled

\* A wait that gives up at once.
TimedOut_early(t) == TRUE

\* response_event.wait(timeout=timeout): the timeout has elapsed.
TimedOut(t) == timer[t] = TimeoutTicks

\* response_event.wait returns False after the timeout: return None.
WaitTimeout(t) ==
    /\ Waiting(t) /\ ~event[t] /\ TimedOut(t)
    /\ result' = [result EXCEPT ![t] = None]
    /\ callerPc' = [callerPc EXCEPT ![t] = "finally"]
    /\ noneAfterHandled' = IF ChainCompleted(callerMsg[t].id)
                           THEN noneAfterHandled \cup {t} ELSE noneAfterHandled
    /\ UNCHANGED <<brokerVars, agentVars, registered_agents, pub, callerMsg,
                   event, container, timer, now, retrievalVars, dialogueVars, stateVars, published, invoked, returns,
                   handled, taken, seen, passed, late>>

\* The finally block: unregister_response_handler(message.id).
Cleanup(t) ==
    /\ callerPc[t] = "finally"
    /\ response_handlers' = Unregistered(response_handlers, callerMsg[t].id)
    /\ callerPc' = [callerPc EXCEPT ![t] = "done"]
    /\ UNCHANGED <<subscribers, agentVars, registered_agents, pub, callerMsg,
                   event, container, result, timer, now, retrievalVars, dialogueVars, stateVars, histVars>>

\* ------------------------------------------------ ids read off the clock
\* The decimal digits, for formatting a number as text.
Digits == <<"0", "1", "2", "3", "4", "5", "6", "7", "8", "9">>

\* f"{...}": the text of a clock reading, digit by digit.
RECURSIVE Timestamp(_)
Timestamp(reading) ==
    IF reading < 10 THEN <<Digits[reading + 1]>>
    ELSE Append(Timestamp(reading \div 10), Digits[(reading % 10) + 1])

\* Message.id's default_factory: the text of datetime.now().timestamp() at
\* the moment of construction.
DefaultId == Timestamp(now)

\* The requests the caller threads construct without passing an id.
ConstructedMessages(t) ==
    {[m EXCEPT !.id = DefaultId] :
        m \in {c \in CallerMessages(t) : c.content.action = <<"ping">>}}

\* The clock moves on by one unit of its resolution.
ClockTick ==
    /\ now < MaxClock
    /\ now' = now + 1
    /\ UNCHANGED <<brokerVars, agentVars, registered_agents, pub, callerPc,
                   callerMsg, event, container, result, timer, retrievalVars, dialogueVars, stateVars,
                   histVars>>

\* Message(...) constructed by the caller, then send_message_and_wait:
\* register the response handler under message.id, enter send_message ->
\* publish.
CallConstructed(t) ==
    /\ callerPc[t] = "idle"
    /\ \E m \in ConstructedMessages(t) :
         /\ callerMsg' = [callerMsg EXCEPT ![t] = m]
         /\ response_handlers' = Registered(response_handlers, m.id, t)
         /\ pub' = EnterPublish(t, m, NoId)
         /\ published' = published \cup
               {[msg |-> m, by |-> t, re |-> NoId, raised |-> FALSE,
                 pending |-> Outstanding]}
    /\ callerPc' = [callerPc EXCEPT ![t] = "inflight"]
    /\ UNCHANGED <<subscribers, agentVars, registered_agents, event, container,
                   result, timer, now, retrievalVars, dialogueVars, stateVars, invoked, returns, handled, noneAfterHandled,
                   taken, seen, passed, late>>

\* A sender that hands the broker a handler of its own: it registers the
\* handler under message.id, publishes the message and goes on without
\* waiting.
SendWithHandler(t, h) ==
    /\ callerPc[t] = "idle"
    /\ \E m \in CallerMessages(t) :
         /\ callerMsg' = [callerMsg EXCEPT ![t] = m]
         /\ response_handlers' = Registered(response_handlers, m.id, h)
         /\ pub' = EnterPublish(t, m, NoId)
         /\ published' = published \cup
               {[msg |-> m, by |-> t, re |-> NoId, raised |-> FALSE,
                 pending |-> Outstanding]}
    /\ callerPc' = [callerPc EXCEPT ![t] = "done"]
    /\ UNCHANGED <<subscribers, agentVars, registered_agents, event, container,
                   result, timer, now, retrievalVars, dialogueVars, stateVars, invoked, returns, handled,
                   noneAfterHandled, taken, seen, passed, late>>

\* ------------------------------------------- other users of the broker
\* Identities under which plain callbacks get subscribed.
PlainIdentities == {"dialogue"}

\* MessageBroker.subscribe called with a plain callback.
SubscribePlain(a, cb) ==
    /\ Len(GetSubscribers(subscribers, a)) < MaxSubs
    /\ subscribers' = Subscribed(subscribers, a, cb)
    /\ pub' = PubAfterSubscribe(a, cb)
    /\ UNCHANGED <<response_handlers, agentVars, registered_agents, callerVars,
                   histVars>>

\* MessageBroker.unsubscribe called with that callback.
UnsubscribePlain(a, cb) ==
    /\ a \in DOMAIN subscribers
    /\ \E i \in 1..Len(subscribers[a]) : subscribers[a][i] = cb
    /\ subscribers' = Unsubscribed(subscribers, a, cb)
    /\ pub' = PubAfterUnsubscribe(a)
    /\ UNCHANGED <<response_handlers, agentVars, registered_agents, callerVars,
                   histVars>>

\* -------------------------------------------------------- specification
\* Life cycle of the agents and of the orchestrator's registry.
StartStep ==
    \/ \E a \in Agents : Start(a)
    \/ \E a \in Agents : RegisterAgent(a)

StopStep ==
    \/ \E a \in Agents : StopBegin(a)
    \/ \E a \in Agents : StopFinish(a)
    \/ \E a \in Agents : UnregisterAgent(a)

\* Steps of the processing loops.
LoopStep ==
    \/ \E l \in LoopThreads : LoopCheck(l)
    \/ \E l \in LoopThreads : LoopGet(l)
    \/ \E l \in LoopThreads : LoopEmpty(l)
    \/ \E l \in LoopThreads : LoopHandle(l)

\* Steps of the publish() calls in progress.
PublishStep ==
    \/ \E t \in Threads : PublishCheck(t)
    \/ \E t \in Threads : PublishLookup(t)
    \/ \E t \in Threads : PublishDeliver(t)

\* Steps of a caller thread in send_message_and_wait.
CallerStep(t) ==
    \/ Call(t)
    \/ Tick(t)
    \/ WaitSignaled(t)
    \/ WaitTimeout(t)
    \/ Cleanup(t)

\* One caller, the agents starting, stopping, registering and unregistering.
Next ==
    \/ StartStep
    \/ StopStep
    \/ LoopStep
    \/ PublishStep
    \/ CallerStep("t1")

Spec == Init /\ [][Next]_vars

\* Every thread that can take a step eventually takes one: the caller
\* threads, the threads inside publish(), the agents' loops.
Fairness ==
    /\ \A t \in CallerThreads :
          WF_vars(Tick(t) \/ WaitSignaled(t) \/ WaitTimeout(t) \/ Cleanup(t))
    /\ \A t \in Threads :
          WF_vars(PublishCheck(t) \/ PublishLookup(t) \/ PublishDeliver(t))
    /\ \A l \in LoopThreads :
          WF_vars(LoopCheck(l) \/ LoopGet(l) \/ LoopEmpty(l) \/ LoopHandle(l))

FairSpec == Spec /\ Fairness

\* One caller; the agents start and register, none stops or unregisters.
NextUp ==
    \/ StartStep
    \/ LoopStep
    \/ PublishStep
    \/ CallerStep("t1")

SpecUp == Init /\ [][NextUp]_vars

\* Steps of the start() calls that several threads make at the same time.
RaceStep ==
    \/ \E a \in Agents : StartCheck(a)
    \/ \E a \in Agents : StartAct(a)

\* The agents are started, by racing threads too, and never stopped; one
\* caller sends a Command.
NextStart ==
    \/ RaceStep
    \/ LoopStep
    \/ PublishStep
    \/ CallerStep("t2")

SpecStart == Init /\ [][NextStart]_vars

\* The dialogue agent is started and stopped again and again by its
\* controlling thread, one call after the other, while a caller sends it a
\* Command.
NextLife ==
    \/ starting["dialogue"] = 0 /\ StartCheck("dialogue")
    \/ StartAct("dialogue")
    \/ StopBegin("dialogue")
    \/ StopFinish("dialogue")
    \/ LoopStep
    \/ PublishStep
    \/ CallerStep("t2")

SpecLife == Init /\ [][NextLife]_vars

\* Two callers at the same time; the agents start, none stops, and the
\* orchestrator's registry stays empty.
NextPair ==
    \/ \E a \in Agents : Start(a)
    \/ LoopStep
    \/ PublishStep
    \/ \E t \in CallerThreads : CallerStep(t)

SpecPair == Init /\ [][NextPair]_vars

\* Two callers construct their requests, each at the clock reading of its
\* moment, and wait for the answers; the orchestrator starts, and the clock
\* moves on at any time.
NextIds ==
    \/ ClockTick
    \/ Start("orchestrator")
    \/ LoopStep
    \/ PublishStep
    \/ \E t \in CallerThreads : CallConstructed(t)
    \/ \E t \in CallerThreads : Tick(t)
    \/ \E t \in CallerThreads : WaitSignaled(t)
    \/ \E t \in CallerThreads : WaitTimeout(t)
    \/ \E t \in CallerThreads : Cleanup(t)

SpecIds == Init /\ [][NextIds]_vars

\* One caller and the broker's other users, which subscribe and unsubscribe
\* plain callbacks next to the agents' own; the agents start, none stops.
PlainStep ==
    \/ \E a \in PlainIdentities, cb \in PlainCallbacks : SubscribePlain(a, cb)
    \/ \E a \in PlainIdentities, cb \in PlainCallbacks : UnsubscribePlain(a, cb)

NextBroker ==
    \/ StartStep
    \/ LoopStep
    \/ PublishStep
    \/ PlainStep
    \/ CallerStep("t1")

SpecBroker == Init /\ [][NextBroker]_vars

\* The agents start and answer the Commands of a sender whose handler is a
\* plain callable.
NextHandlers ==
    \/ \E a \in Agents : Start(a)
    \/ LoopStep
    \/ PublishStep
    \/ \E h \in PlainHandlers : SendWithHandler("t1", h)

SpecHandlers == Init /\ [][NextHandlers]_vars

\* ------------------------------------------ the orchestrator's Commands
\* Action names sent to the orchestrator: the built-ins, two names for each
\* row of the prefix table, and names that match no row (a missing action,
\* a row's word without its underscore, a prefix that is not at the start).
DispatchActions ==
    {<<"ping">>, <<"get_agent_status">>, <<"route">>,
     <<"process_document">>, <<"get_document", "_x">>,
     <<"retrieve_", "x">>, <<"search_", "x">>,
     <<"generate_", "x">>, <<"translate_", "x">>,
     <<"auth_", "x">>, <<"login_", "x">>,
     <<"chat_", "x">>, <<"process_user_message">>,
     <<>>, <<"bogus">>, <<"retrieve">>, <<"x", "chat_">>, <<"get_">>}

\* The contents of the Commands: every action name alone, get_agent_status
\* with an agent_type, and route with and without target_agent and payload.
CommandContents ==
    {Content(a, "none", <<>>, "none", "none") : a \in DispatchActions}
    \cup {Content(<<"get_agent_status">>, "none", <<>>, w, "none") :
             w \in {"dialogue", "llm"}}
    \cup {Content(<<"route">>, w, q, "none", "none") :
             w \in {"none", "dialogue", "llm", "nobody"},
             q \in {<<>>, <<"chat_", "x">>, NotAMapping}}

\* The Commands found in the orchestrator's inbox: the first is any of the
\* contents, from the UI (which signs as the orchestrator) or from the
\* dialogue agent; the second, when there is one, a ping, a chat or a route.
FirstCommands ==
    {Message(<<"m1">>, snd[1], "orchestrator", "command", snd[2], c, NoId) :
        snd \in {<<"orchestrator", "high">>, <<"dialogue", "low">>},
        c \in CommandContents}
SecondCommands ==
    {Message(<<"m2">>, "orchestrator", "orchestrator", "command", "medium", c, NoId) :
        c \in {Content(<<"ping">>, "none", <<>>, "none", "none"),
               Content(<<"chat_", "x">>, "none", <<>>, "none", "none"),
               Content(<<"route">>, "dialogue", <<"chat_", "x">>, "none", "none")}}
InboxContents ==
    {<<m>> : m \in FirstCommands}
    \cup {<<m, n>> : m \in FirstCommands, n \in SecondCommands}

\* The registries AgentFactory and unregister_agent leave.
Workers == AgentType \ {"orchestrator"}
Registries == {{}, {"dialogue"}, Workers \ {"dialogue"}, Workers}

\* The orchestrator is running with Commands in its inbox; the workers are
\* created and registered or not, and the dialogue agent is started or not
\* (app/main.py starts the orchestrator only).
InitInbox ==
    /\ \E up \in BOOLEAN :
          /\ running = [a \in Agents |-> a = "orchestrator" \/ up]
          /\ loopPc = [l \in LoopThreads |->
                          IF l = "orchestrator" \/ (l = "dialogue" /\ up)
                          THEN "top" ELSE "dead"]
          /\ subscribers = IF up
                THEN Subscribed(Subscribed(<<>>, "orchestrator", "orchestrator"),
                                "dialogue", "dialogue")
                ELSE Subscribed(<<>>, "orchestrator", "orchestrator")
    /\ \E q \in InboxContents :
          /\ inbox = [a \in Agents |-> IF a = "orchestrator" THEN q ELSE <<>>]
          /\ taken = [i \in 1..Len(q) |-> q[i].id]
          /\ seen = [cb \in Callbacks |->
                        IF cb = "orchestrator" THEN [i \in 1..Len(q) |-> q[i].id]
                        ELSE <<>>]
          /\ published = {[msg |-> q[i], by |-> "t1", re |-> NoId,
                           raised |-> FALSE, pending |-> {}] : i \in 1..Len(q)}
    /\ registered_agents \in Registries
    /\ response_handlers = <<>>
    /\ starting = [a \in Agents |-> 0]
    /\ thread = [a \in Agents |-> IF loopPc[a] = "dead" THEN "none" ELSE a]
    /\ stopping = [a \in Agents |-> FALSE]
    /\ cur = [l \in LoopThreads |-> None]
    /\ pub = [t \in Threads |-> IdlePub]
    /\ callerPc = [t \in CallerThreads |-> "idle"]
    /\ callerMsg = [t \in CallerThreads |-> None]
    /\ event = [t \in CallerThreads |-> FALSE]
    /\ container = [t \in CallerThreads |-> None]
    /\ result = [t \in CallerThreads |-> None]
    /\ timer = [t \in CallerThreads |-> 0]
    /\ now = 1
    /\ InitRetrieval
    /\ InitDialogue
    /\ InitState
    /\ invoked = {}
    /\ passed = [a \in Agents |-> <<>>]
    /\ late = [a \in Agents |-> {}]
    /\ returns = {}
    /\ handled = {}
    /\ noneAfterHandled = {}

\* The loops work through the inbox while the registry changes.
NextInbox ==
    \/ LoopStep
    \/ PublishStep
    \/ \E a \in Agents : RegisterAgent(a)
    \/ \E a \in Agents : UnregisterAgent(a)

SpecInbox == InitInbox /\ [][NextInbox]_vars

FairSpecInbox == SpecInbox /\ Fairness

\* ========================================================= vector retriever
\* Identifiers of the documents that get indexed, and one that never is.
DocumentIds == {"d1", "d2"}
UnknownId == "dx"

\* DocumentChunk. The optional embedding is the empty set for None and the
\* set of the one list of numbers otherwise (which may be the empty list).
DocumentChunk(chunk_id, document_id, content, embedding) ==
    [chunk_id |-> chunk_id, document_id |-> document_id, content |-> content,
     embedding |-> embedding]

\* `if chunk.embedding:` is true of a list that is there and is not empty.
\* A test for None alone.
HasEmbedding_notnone(chunk) == chunk.embedding # {}

HasEmbedding(chunk) == chunk.embedding # {} /\ chunk.embedding # {<<>>}

EmbeddingOf(chunk) == CHOOSE e \in chunk.embedding : TRUE

\* The keys of an insertion-ordered dict of documents, and its lookups.
Keys(docs) == [i \in 1..Len(docs) |-> docs[i].document_id]
InDocuments(docs, document_id) ==
    \E i \in 1..Len(docs) : docs[i].document_id = document_id
GetChunks(docs, document_id) ==
    IF InDocuments(docs, document_id)
    THEN docs[CHOOSE i \in 1..Len(docs) : docs[i].document_id = document_id].chunks
    ELSE <<>>
GetVectors(vecs, document_id) ==
    IF document_id \in DOMAIN vecs THEN vecs[document_id] ELSE <<>>

\* self.documents[doc_id].extend(doc_chunks_list) on the defaultdict: a new
\* key goes to the end, a known key keeps its place.
Extended(docs, document_id, chunks) ==
    IF InDocuments(docs, document_id)
    THEN [i \in 1..Len(docs) |->
            IF docs[i].document_id = document_id
            THEN [docs[i] EXCEPT !.chunks = @ \o chunks] ELSE docs[i]]
    ELSE Append(docs, [document_id |-> document_id, chunks |-> chunks])

\* self.vectors[doc_id][chunk.chunk_id] = chunk.embedding: a known chunk id
\* keeps its place in the dict and gets the new value, a new one goes last.
VectorSet(entries, chunk_id, embedding) ==
    IF \E i \in 1..Len(entries) : entries[i].chunk_id = chunk_id
    THEN [i \in 1..Len(entries) |->
            IF entries[i].chunk_id = chunk_id
            THEN [chunk_id |-> chunk_id, embedding |-> embedding] ELSE entries[i]]
    ELSE Append(entries, [chunk_id |-> chunk_id, embedding |-> embedding])

\* The loop over one document's new chunks that stores their vectors.
RECURSIVE StoreVectors(_, _)
StoreVectors(entries, chunks) ==
    IF chunks = <<>> THEN entries
    ELSE StoreVectors(IF HasEmbedding(Head(chunks))
                      THEN VectorSet(entries, Head(chunks).chunk_id,
                                     EmbeddingOf(Head(chunks)))
                      ELSE entries,
                      Tail(chunks))

\* The document ids of a list of chunks, in the order they first appear
\* (the keys of the local doc_chunks dict).
RECURSIVE GroupIds(_)
GroupIds(chunks) ==
    IF chunks = <<>> THEN <<>>
    ELSE LET rest == GroupIds(SubSeq(chunks, 1, Len(chunks) - 1))
             d == chunks[Len(chunks)].document_id IN
         IF \E i \in 1..Len(rest) : rest[i] = d THEN rest ELSE Append(rest, d)

ChunksOfDocument(chunks, document_id) ==
    SelectSeq(chunks, LAMBDA c : c.document_id = document_id)

\* VectorRetriever.add_documents, group by group: the store after it, as
\* the pair of documents and vectors.
RECURSIVE AddGroups(_, _, _, _)
AddGroups(docs, vecs, ids, chunks) ==
    IF ids = <<>> THEN [documents |-> docs, vectors |-> vecs]
    ELSE LET d == Head(ids)
             list == ChunksOfDocument(chunks, d)
             entries == StoreVectors(GetVectors(vecs, d), list)
             vecs1 == IF \E i \in 1..Len(list) : HasEmbedding(list[i])
                      THEN [k \in DOMAIN vecs \cup {d} |->
                               IF k = d THEN entries ELSE vecs[k]]
                      ELSE vecs IN
         AddGroups(Extended(docs, d, list), vecs1, Tail(ids), chunks)

add_documents(docs, vecs, chunks) == AddGroups(docs, vecs, GroupIds(chunks), chunks)

\* VectorRetriever.remove_document: the store after it and the count it
\* returns.
\* A removal that leaves the vectors behind.
remove_document_keepvectors(docs, vecs, document_id) ==
    [documents |-> SelectSeq(docs, LAMBDA e : e.document_id # document_id),
     vectors |-> vecs,
     num_chunks |-> Len(GetChunks(docs, document_id))]

remove_document(docs, vecs, document_id) ==
    [documents |-> SelectSeq(docs, LAMBDA e : e.document_id # document_id),
     vectors |-> [k \in DOMAIN vecs \ {document_id} |-> vecs[k]],
     num_chunks |-> Len(GetChunks(docs, document_id))]

\* ------------------------------------------------------ similarity search
\* Vectors are lists of whole numbers of one dimension.
RECURSIVE Dot(_, _)
Dot(vec1, vec2) ==
    IF vec1 = <<>> THEN 0 ELSE Head(vec1) * Head(vec2) + Dot(Tail(vec1), Tail(vec2))

\* A score is a fraction num/den with den > 0. The cosine is kept as its
\* signed square, which orders and compares as the cosine itself does; a
\* den of 0 stands for the nan of a division of zero by zero.
ScoreOf(num, den) == [num |-> num, den |-> den]
Zero == ScoreOf(0, 1)
IsNan(score) == score.den = 0
ScoreEq(a, b) == a.num * b.den = b.num * a.den
ScoreGe(a, b) == a.num * b.den >= b.num * a.den

\* The division at the end of _cosine_similarity.
Quotient(vec1, vec2) ==
    LET dot_product == Dot(vec1, vec2) IN
    ScoreOf((IF dot_product < 0 THEN -1 ELSE 1) * dot_product * dot_product,
            Dot(vec1, vec1) * Dot(vec2, vec2))

\* A similarity that divides whatever the magnitudes are.
cosine_similarity_unguarded(vec1, vec2) == Quotient(vec1, vec2)

\* VectorRetriever._cosine_similarity.
cosine_similarity(vec1, vec2) ==
    IF Dot(vec1, vec1) = 0 \/ Dot(vec2, vec2) = 0 THEN Zero
    ELSE Quotient(vec1, vec2)

\* The vectors the similarity is computed for.
Vectors == (-MaxComponent..MaxComponent) \X (-MaxComponent..MaxComponent)

\* A pair of vectors is drawn and nothing else has happened.
InitCosine ==
    /\ InitMessaging
    /\ InitDialogue
    /\ InitState
    /\ documents = <<>>
    /\ vectors = <<>>
    /\ query_cache = <<>>
    /\ clock = 0
    /\ request \in {[action |-> "cosine_similarity", vec1 |-> v, vec2 |-> w] :
                        v \in Vectors, w \in Vectors}
    /\ answer = [type |-> "none"]
    /\ origin = <<>>
    /\ removed = {}

\* A call of VectorRetriever._cosine_similarity with the pair drawn.
CosineSimilarity ==
    /\ request.action = "cosine_similarity"
    /\ answer.type = "none"
    /\ answer' = [type |-> "score",
                  score |-> cosine_similarity(request.vec1, request.vec2)]
    /\ UNCHANGED <<messagingVars, dialogueVars, stateVars, documents, vectors, query_cache, clock, request,
                   origin, removed>>

NextCosine == CosineSimilarity

SpecCosine == InitCosine /\ [][NextCosine]_vars

\* Filters as retrieve gets them: absent (None), the empty dict, a dict
\* with document_id a single id or a list of ids, or a dict with other
\* keys only.
Filters(kind, ids) == [kind |-> kind, ids |-> ids]
AbsentFilters == Filters("absent", <<>>)
EmptyFilters == Filters("empty", <<>>)

\* A resolution of the filters that searches every document.
filter_document_ids_all(docs, filters) == Keys(docs)

\* VectorRetriever._filter_document_ids.
filter_document_ids(docs, filters) ==
    IF filters.kind \in {"absent", "empty"} THEN Keys(docs)
    ELSE IF filters.kind \in {"single", "list"}
         THEN SelectSeq(filters.ids, LAMBDA d : InDocuments(docs, d))
         ELSE Keys(docs)

\* EmbeddingGenerator._generate_mock_embeddings: a vector fixed by the text.
QueryTexts == {"query", "other"}
generate_embeddings(query) == IF query = "query" THEN <<1, 0>> ELSE <<1, 1>>

\* doc_chunks.get(chunk_id) on the dict built from the document's chunk
\* list: the last chunk of that id, or nothing.
ChunkById(chunks, chunk_id) ==
    LET at == {i \in 1..Len(chunks) : chunks[i].chunk_id = chunk_id} IN
    IF at = {} THEN {} ELSE {chunks[CHOOSE i \in at : \A j \in at : j <= i]}

\* The inner loop of retrieve over one document's vectors.
RECURSIVE ScanVectors(_, _, _, _)
ScanVectors(document_id, entries, chunks, query_embedding) ==
    IF entries = <<>> THEN <<>>
    ELSE LET found == ChunkById(chunks, Head(entries).chunk_id)
             rest == ScanVectors(document_id, Tail(entries), chunks,
                                 query_embedding) IN
         IF found = {} THEN rest
         ELSE <<[document_id |-> document_id,
                 chunk_id |-> Head(entries).chunk_id,
                 content |-> (CHOOSE c \in found : TRUE).content,
                 score |-> cosine_similarity(query_embedding,
                                             Head(entries).embedding)]>> \o rest

\* The outer loop of retrieve over the candidate documents: all_results
\* before the sort.
RECURSIVE ScanDocuments(_, _, _, _)
ScanDocuments(docs, vecs, document_ids, query_embedding) ==
    IF document_ids = <<>> THEN <<>>
    ELSE ScanVectors(Head(document_ids), GetVectors(vecs, Head(document_ids)),
                     GetChunks(docs, Head(document_ids)), query_embedding)
         \o ScanDocuments(docs, vecs, Tail(document_ids), query_embedding)

\* list.sort(key=score, reverse=True): descending, equal scores staying in
\* the order they had. Insert puts an entry behind every entry that scores
\* at least as much.
\* An insertion that puts an entry in front of its equals.
RECURSIVE Insert_unstable(_, _)
Insert_unstable(sorted, entry) ==
    IF sorted = <<>> THEN <<entry>>
    ELSE IF ScoreGe(entry.score, Head(sorted).score)
         THEN <<entry>> \o sorted
         ELSE <<Head(sorted)>> \o Insert_unstable(Tail(sorted), entry)

RECURSIVE Insert(_, _)
Insert(sorted, entry) ==
    IF sorted = <<>> THEN <<entry>>
    ELSE IF ScoreGe(Head(sorted).score, entry.score)
         THEN <<Head(sorted)>> \o Insert(Tail(sorted), entry)
         ELSE <<entry>> \o sorted

RECURSIVE SortByScore(_)
SortByScore(all_results) ==
    IF all_results = <<>> THEN <<>>
    ELSE Insert(SortByScore(SubSeq(all_results, 1, Len(all_results) - 1)),
                all_results[Len(all_results)])

\* all_results[:k].
\* A slice that takes one entry more.
Slice_onemore(list, k) == SubSeq(list, 1, IF k + 1 < Len(list) THEN k + 1 ELSE Len(list))

Slice(list, k) ==
    IF k >= 0 THEN SubSeq(list, 1, IF k < Len(list) THEN k ELSE Len(list))
    ELSE SubSeq(list, 1, IF Len(list) + k > 0 THEN Len(list) + k ELSE 0)

\* all_results as the scan of retrieve leaves it, before the sort.
Candidates(docs, vecs, query, filters) ==
    ScanDocuments(docs, vecs, filter_document_ids(docs, filters),
                  generate_embeddings(query))

\* VectorRetriever.retrieve.
retrieve(docs, vecs, query, filters, k) ==
    LET query_embedding == generate_embeddings(query)
        document_ids == filter_document_ids(docs, filters) IN
    IF document_ids = <<>> THEN <<>>
    ELSE Slice(SortByScore(ScanDocuments(docs, vecs, document_ids,
                                         query_embedding)), k)

\* ------------------------------------------------ calls of the retriever
\* The chunks that get indexed: a document of three chunks with distinct
\* embeddings, a chunk without embedding, a zero vector next to a vector
\* with the direction of another document's, an empty embedding, a chunk id
\* indexed again without embedding, and a list over two documents.
ThreeChunks ==
    <<DocumentChunk("c1", "d1", "t1", {<<1, 0>>}),
      DocumentChunk("c2", "d1", "t2", {<<0, 1>>}),
      DocumentChunk("c3", "d1", "t3", {<<1, 1>>})>>
TwoChunks ==
    <<DocumentChunk("c5", "d2", "t5", {<<0, 0>>}),
      DocumentChunk("c6", "d2", "t6", {<<2, 0>>})>>
ChunkLists ==
    {ThreeChunks,
     <<DocumentChunk("c4", "d1", "t4", {})>>,
     TwoChunks,
     <<DocumentChunk("c7", "d2", "t7", {<<>>})>>,
     <<DocumentChunk("c1", "d1", "t1b", {})>>,
     <<DocumentChunk("c8", "d2", "t8", {<<-1, 0>>}),
       DocumentChunk("c9", "d1", "t9", {<<2, 2>>})>>}

\* No document grows beyond MaxChunks chunks.
Fits(docs, chunks) ==
    \A d \in DocumentIds :
        Len(GetChunks(docs, d)) + Len(ChunksOfDocument(chunks, d)) <= MaxChunks

\* The queries put to the store: a text, filters and a number of results
\* (5 is the default).
Query(query, filters, k) == [query |-> query, filters |-> filters, k |-> k]
Queries ==
    {Query("query", EmptyFilters, 2), Query("query", AbsentFilters, 5),
     Query("query", EmptyFilters, 0), Query("other", EmptyFilters, 5),
     Query("query", Filters("single", <<"d1">>), 5),
     Query("other", Filters("single", <<"d1">>), 1),
     Query("query", Filters("single", <<UnknownId>>), 5),
     Query("query", Filters("list", <<"d2", UnknownId, "d1">>), 5),
     Query("other", Filters("list", <<"d2", UnknownId, "d1">>), 2),
     Query("query", Filters("list", <<"d1", "d1">>), 5),
     Query("query", Filters("other", <<>>), 1)}

\* A call of VectorRetriever.add_documents.
AddDocuments(chunks) ==
    /\ Fits(documents, chunks)
    /\ LET after == add_documents(documents, vectors, chunks) IN
         /\ documents' = after.documents
         /\ vectors' = after.vectors
    /\ request' = [action |-> "add_documents", chunks |-> chunks]
    /\ answer' = [type |-> "none"]
    /\ UNCHANGED <<messagingVars, dialogueVars, stateVars, query_cache, clock, origin, removed>>

\* A call of VectorRetriever.remove_document.
RemoveDocument(document_id) ==
    /\ LET after == remove_document(documents, vectors, document_id) IN
         /\ documents' = after.documents
         /\ vectors' = after.vectors
         /\ answer' = [type |-> "count", num_chunks |-> after.num_chunks]
    /\ request' = [action |-> "remove_document", document_id |-> document_id]
    /\ UNCHANGED <<messagingVars, dialogueVars, stateVars, query_cache, clock, origin, removed>>

\* A call of VectorRetriever.retrieve.
Retrieve(query, filters, k) ==
    /\ request' = [action |-> "retrieve", query |-> query, filters |-> filters,
                   k |-> k]
    /\ answer' = [type |-> "results",
                  results |-> retrieve(documents, vectors, query, filters, k),
                  scanned |-> Candidates(documents, vectors, query, filters)]
    /\ UNCHANGED <<messagingVars, dialogueVars, stateVars, documents, vectors, query_cache, clock, origin,
                   removed>>

\* The vector store on its own: chunks get added, documents removed and
\* queries answered, in any order.
NextIndex ==
    \/ \E chunks \in ChunkLists : AddDocuments(chunks)
    \/ \E d \in DocumentIds \cup {UnknownId} : RemoveDocument(d)
    \/ \E q \in Queries : Retrieve(q.query, q.filters, q.k)

SpecIndex == Init /\ [][NextIndex]_vars

\* ------------------------------------------------------ retrieval agent
\* The age under which a cache entry is used.
FreshFor == 300

\* str(filters): the text of the dict, piece by piece.
RECURSIVE StrList(_)
StrList(ids) ==
    IF ids = <<>> THEN <<>>
    ELSE <<"'", Head(ids), "'">>
         \o (IF Len(ids) > 1 THEN <<", ">> ELSE <<>>) \o StrList(Tail(ids))
StrFilters(filters) ==
    IF filters.kind = "empty" THEN <<"{}">>
    ELSE IF filters.kind = "single"
         THEN <<"{'document_id': ">> \o StrList(filters.ids) \o <<"}">>
    ELSE IF filters.kind = "list"
         THEN <<"{'document_id': ", "[">> \o StrList(filters.ids) \o <<"]", "}">>
    ELSE IF filters.kind = "other" THEN <<"{'user_id': ", "'", "u1", "'", "}">>
    ELSE <<"None">>

\* cache_key = f"{query}_{str(filters)}_{num_results}".
cache_key(query, filters, num_results) ==
    <<query, "_">> \o StrFilters(filters) \o <<"_">> \o Timestamp(num_results)

\* message.content.get("filters", {}).
ContentFilters(filters) == IF filters = AbsentFilters THEN EmptyFilters ELSE filters

\* self.query_cache[cache_key] = {...}.
Cached(cache, key, entry) ==
    [k \in DOMAIN cache \cup {key} |-> IF k = key THEN entry ELSE cache[k]]

\* An entry used up to and including the age of 300.
IsFresh_inclusive(cache_entry, time) == time - cache_entry.timestamp <= FreshFor

\* age = time.time() - cache_entry["timestamp"]; age < 300.
IsFresh(cache_entry, time) == time - cache_entry.timestamp < FreshFor

\* A hit answered with what the store gives now.
HitResults_fresh(cache_entry, docs, vecs, query, filters, k) ==
    retrieve(docs, vecs, query, filters, k)

\* send_response(message, cache_entry["results"]).
HitResults(cache_entry, docs, vecs, query, filters, k) == cache_entry.results

\* A removal that drops only the cache entries whose filters name the document.
CacheAfterRemove_matching(cache, document_id) ==
    [k \in {j \in DOMAIN cache : \A i \in 1..Len(j) : j[i] # document_id} |-> cache[k]]

\* A removal that leaves the cache as it is.
CacheAfterRemove_keep(cache, document_id) == cache

\* self.query_cache = {} in _handle_remove_document.
CacheAfterRemove(cache, document_id) == <<>>

\* `query_pattern in key`, for a pattern that is one piece of the key.
Contains(key, query_pattern) == \E i \in 1..Len(key) : key[i] = query_pattern

\* The ids of the Commands the agents handle.
CommandIds == {<<"m1">>, <<"m2">>}

\* An Error that carries no correlation_id.
RetrievalError_uncorrelated(id, error) ==
    [type |-> "error", error |-> error, correlation_id |-> NoId]

\* send_error(message.sender, error, message.id) of the retrieval agent.
RetrievalError(id, error) ==
    [type |-> "error", error |-> error, correlation_id |-> id]

\* InformationRetrievalAgent._handle_retrieve.
handle_retrieve(id, c) ==
    /\ request' = [action |-> "retrieve", id |-> id, query |-> c.query,
                   filters |-> c.filters, num_results |-> c.num_results,
                   use_cache |-> c.use_cache]
    /\ IF c.query = ""
       THEN /\ answer' = RetrievalError(id, "Missing query parameter")
            /\ UNCHANGED <<query_cache, origin>>
       ELSE LET filters == ContentFilters(c.filters)
                key == cache_key(c.query, filters, c.num_results) IN
            IF /\ c.use_cache
               /\ key \in DOMAIN query_cache
               /\ IsFresh(query_cache[key], clock)
            THEN /\ answer' = [type |-> "response", correlation_id |-> id,
                               how |-> "cache",
                               results |-> HitResults(query_cache[key], documents,
                                                      vectors, c.query, filters,
                                                      c.num_results)]
                 /\ UNCHANGED <<query_cache, origin>>
            ELSE LET results == retrieve(documents, vectors, c.query, filters,
                                         c.num_results) IN
                 /\ query_cache' = Cached(query_cache, key,
                                          [results |-> results, timestamp |-> clock])
                 /\ origin' = Cached(origin, key, results)
                 /\ answer' = [type |-> "response", correlation_id |-> id,
                               how |-> "computed", results |-> results]
    /\ UNCHANGED <<messagingVars, dialogueVars, stateVars, documents, vectors, clock, removed>>

\* InformationRetrievalAgent._handle_index_document.
handle_index_document(id, c) ==
    /\ request' = [action |-> "index_document", id |-> id,
                   document_id |-> c.document_id, chunks |-> c.chunks]
    /\ IF c.document_id = ""
       THEN /\ answer' = RetrievalError(id, "Missing document_id parameter")
            /\ UNCHANGED <<documents, vectors, removed>>
       ELSE IF c.chunks = <<>>
       THEN /\ answer' = RetrievalError(id, "Missing chunks parameter")
            /\ UNCHANGED <<documents, vectors, removed>>
       ELSE /\ Fits(documents, c.chunks)
            /\ LET after == add_documents(documents, vectors, c.chunks) IN
                 /\ documents' = after.documents
                 /\ vectors' = after.vectors
                 /\ removed' = {d \in removed : ~InDocuments(after.documents, d)}
            /\ answer' = [type |-> "response", correlation_id |-> id,
                          status |-> "success", document_id |-> c.document_id,
                          num_chunks_indexed |-> Len(c.chunks)]
    /\ UNCHANGED <<messagingVars, dialogueVars, stateVars, query_cache, clock, origin>>

\* InformationRetrievalAgent._handle_remove_document.
handle_remove_document(id, document_id) ==
    /\ request' = [action |-> "remove_document", id |-> id,
                   document_id |-> document_id]
    /\ IF document_id = ""
       THEN /\ answer' = RetrievalError(id, "Missing document_id parameter")
            /\ UNCHANGED <<documents, vectors, query_cache, origin, removed>>
       ELSE LET after == remove_document(documents, vectors, document_id) IN
            /\ removed' = removed \cup {document_id}
            /\ documents' = after.documents
            /\ vectors' = after.vectors
            /\ query_cache' = CacheAfterRemove(query_cache, document_id)
            /\ origin' = [k \in DOMAIN query_cache' |-> origin[k]]
            /\ answer' = [type |-> "response", correlation_id |-> id,
                          status |-> "success", document_id |-> document_id,
                          num_chunks_removed |-> after.num_chunks]
    /\ UNCHANGED <<messagingVars, dialogueVars, stateVars, clock>>

\* InformationRetrievalAgent._handle_clear_cache.
handle_clear_cache(id, query_pattern) ==
    /\ request' = [action |-> "clear_cache", id |-> id,
                   query_pattern |-> query_pattern]
    /\ LET keys_to_remove ==
              IF query_pattern # ""
              THEN {k \in DOMAIN query_cache : Contains(k, query_pattern)}
              ELSE DOMAIN query_cache IN
         /\ query_cache' = [k \in DOMAIN query_cache \ keys_to_remove |-> query_cache[k]]
         /\ origin' = [k \in DOMAIN query_cache \ keys_to_remove |-> origin[k]]
         /\ answer' = [type |-> "response", correlation_id |-> id,
                       status |-> "success",
                       num_entries_cleared |-> Cardinality(keys_to_remove)]
    /\ UNCHANGED <<messagingVars, dialogueVars, stateVars, documents, vectors, clock, removed>>

\* time.time() moves on.
Advance(d) ==
    /\ clock + d <= MaxTime
    /\ clock' = clock + d
    /\ UNCHANGED <<messagingVars, dialogueVars, stateVars, documents, vectors, query_cache, request, answer,
                   origin, removed>>

\* The Commands the retrieval agent gets: queries with and without cache
\* use, with the filters left out, with a document_id filter and without a
\* query; documents to index, one without id and one without chunks;
\* documents to remove, one unknown and one without id; the cache to clear,
\* all of it or the entries that mention a document.
RetrieveCommand(query, filters, num_results, use_cache) ==
    [query |-> query, filters |-> filters, num_results |-> num_results,
     use_cache |-> use_cache]
RetrieveCommands ==
    {RetrieveCommand("query", EmptyFilters, 2, TRUE),
     RetrieveCommand("query", EmptyFilters, 2, FALSE),
     RetrieveCommand("query", AbsentFilters, 2, TRUE),
     RetrieveCommand("query", Filters("single", <<"d1">>), 5, TRUE),
     RetrieveCommand("", EmptyFilters, 5, TRUE)}
IndexCommands ==
    {[document_id |-> "d1", chunks |-> ThreeChunks],
     [document_id |-> "d2", chunks |-> TwoChunks],
     [document_id |-> "", chunks |-> ThreeChunks],
     [document_id |-> "d1", chunks |-> <<>>]}
RemoveCommands == {"d1", UnknownId, ""}
ClearCommands == {"", "d1"}
Advances == {FreshFor - 1, FreshFor}

\* The retrieval agent handling its Commands one after the other, as its
\* loop does, while time passes.
NextCache ==
    \/ \E id \in CommandIds, c \in RetrieveCommands : handle_retrieve(id, c)
    \/ \E id \in CommandIds, c \in IndexCommands : handle_index_document(id, c)
    \/ \E id \in CommandIds, d \in RemoveCommands : handle_remove_document(id, d)
    \/ \E id \in CommandIds, p \in ClearCommands : handle_clear_cache(id, p)
    \/ \E d \in Advances : Advance(d)

SpecCache == Init /\ [][NextCache]_vars

\* The route Commands the orchestrator gets from the dialogue agent: with and
\* without target_agent, with and without payload.
RouteCommands ==
    {Message(id, "dialogue", "orchestrator", "command", "medium",
             Content(<<"route">>, w, q, "none", "none"), NoId) :
        id \in CommandIds, w \in {"none", "dialogue"}, q \in {<<>>, <<"chat_", "x">>}}

\* OrchestratorAgent._handle_command on a route Command; the message it
\* publishes is recorded as the answer.
handle_route(message) ==
    LET outcome == handle_command("orchestrator", message, registered_agents) IN
    /\ request' = [action |-> "route", id |-> message.id,
                   target_agent |-> message.content.target_agent,
                   payload |-> message.content.payload]
    /\ answer' = [type |-> outcome.msg.message_type,
                  error |-> outcome.msg.content.error,
                  correlation_id |-> outcome.msg.correlation_id]
    /\ UNCHANGED <<messagingVars, dialogueVars, stateVars, documents, vectors, query_cache, clock,
                   origin, removed>>

\* The retrieval agent and the orchestrator handling Commands with and
\* without their required fields.
NextFields ==
    \/ NextCache
    \/ \E m \in RouteCommands : handle_route(m)

SpecFields == Init /\ [][NextFields]_vars

\* ============================================================ dialogue agent
\* DialogueAgent keeps one ChatSession per session id and answers a
\* process_user_message Command with the assistant's ChatMessage.  The two
\* calls it makes while handling (retrieval, text generation) are answered by
\* other agents: their outcomes are inputs of the handler.

SessionIds == {"s1", "s2"}

\* The dict without a key.
EmptyDict == [k \in {} |-> k]

\* dict.get(key, default) on the content of a Command.
Get(content, key, default) == IF key \in DOMAIN content THEN content[key] ELSE default

\* `not value` for a string parameter: None and "" are both falsy.
Falsy(value) == value \in {"none", ""}

\* The fields of ChatMessage that have no default.
RequiredFields == {"user_id", "session_id", "role", "content"}

\* ChatMessage(**data) validates: every required field is given.
IsChatMessage(data) == RequiredFields \subseteq DOMAIN data

\* The ChatMessage made of data; message_id and timestamp are left out,
\* document_ids defaults to the empty list.
ChatMessage(data) ==
    [user_id |-> data["user_id"], session_id |-> data["session_id"],
     role |-> data["role"], content |-> data["content"],
     document_ids |-> Get(data, "document_ids", <<>>)]

\* ChatSession(...) validates: user_id is a str, never None.
IsChatSession(session_id, user_id) == user_id # "none"

ChatSession(session_id, user_id, document_ids) ==
    [session_id |-> session_id, user_id |-> user_id, model_id |-> "gpt-4o",
     document_ids |-> document_ids, messages |-> <<>>]

\* The three texts the agent writes itself, and the text of the model.
NoInformationText == "I don't have enough information in the documents to answer this question."
SorryText == "I'm sorry, I encountered an error while processing your question. Please try again."
GeneratedText == "text"

\* What send_message_and_wait returns: None after the timeout, an Error, or a
\* Response.  A retrieval Response carries the document ids of its results.
NoReply == [type |-> "none"]
ErrorReply == [type |-> "error"]
RetrievalReplies ==
    {NoReply, ErrorReply, [type |-> "response", results |-> <<>>],
     [type |-> "response", results |-> <<"d1">>]}
LlmReplies == {NoReply, ErrorReply, [type |-> "response", text |-> GeneratedText]}

\* `not reply or reply.message_type == MessageType.ERROR`.
Failed(response) == response.type \in {"none", "error"}

Assistant(user_message, session, content, document_ids) ==
    [user_id |-> user_message.user_id, session_id |-> session.session_id,
     role |-> "assistant", content |-> content, document_ids |-> document_ids]

\* DialogueAgent._generate_simple_response.
generate_simple_response(user_message, session, llm_response) ==
    IF Failed(llm_response)
    THEN Assistant(user_message, session, SorryText, <<>>)
    ELSE Assistant(user_message, session, llm_response.text, <<>>)

\* The branch _generate_response takes.
PathOf(session, retrieval_response) ==
    IF session.document_ids = <<>> THEN "simple"
    ELSE IF Failed(retrieval_response) THEN "fallback"
    ELSE IF retrieval_response.results = <<>> THEN "no_results"
    ELSE "rag"

\* A dialogue agent that treats a failed retrieval like an empty one.
generate_response_nofallback(user_message, session, retrieval_response, llm_response) ==
    IF PathOf(session, retrieval_response) = "simple"
    THEN generate_simple_response(user_message, session, llm_response)
    ELSE Assistant(user_message, session, NoInformationText, <<>>)

\* DialogueAgent._generate_response.
generate_response(user_message, session, retrieval_response, llm_response) ==
    CASE PathOf(session, retrieval_response) \in {"simple", "fallback"} ->
            generate_simple_response(user_message, session, llm_response)
      [] PathOf(session, retrieval_response) = "no_results" ->
            Assistant(user_message, session, NoInformationText, <<>>)
      [] OTHER ->
            IF Failed(llm_response)
            THEN Assistant(user_message, session, SorryText, <<>>)
            ELSE Assistant(user_message, session, llm_response.text,
                           retrieval_response.results)

\* What the handler sends back; retrieval is what the retrieval call of the
\* handler returned, "not_called" when it made none.
DialogueError(error) == [type |-> "error", error |-> error, retrieval |-> "not_called"]
DialogueResponse(response_message, session_id, path, retrieval) ==
    [type |-> "response", message |-> response_message, session_id |-> session_id,
     path |-> path, retrieval |-> retrieval]

\* The session the handler works on: the stored one, or a new one.
SessionFor(session_id, user_id, attached) ==
    IF session_id \in DOMAIN sessions THEN sessions[session_id]
    ELSE ChatSession(session_id, user_id, attached)

Store(store, session_id, session) ==
    [s \in DOMAIN store \cup {session_id} |->
        IF s = session_id THEN session ELSE store[s]]

\* DialogueAgent._handle_process_user_message on the Command content c, the
\* retrieval and the text generation answering as given.
handle_process_user_message(c, retrieval_response, llm_response) ==
    LET user_message_data == Get(c, "message", EmptyDict)
        session_id == Get(c, "session_id", "none")
        user_id == Get(c, "user_id", "none")
        attached == Get(c, "documents", <<>>)
        session == SessionFor(session_id, user_id, attached)
        user_message == ChatMessage(user_message_data)
        response_message ==
            generate_response(user_message, session, retrieval_response, llm_response)
    IN  /\ command' = c
        /\ IF DOMAIN user_message_data = {}
           THEN /\ reply' = DialogueError("Missing message parameter")
                /\ UNCHANGED sessions
           ELSE IF Falsy(session_id)
           THEN /\ reply' = DialogueError("Missing session_id parameter")
                /\ UNCHANGED sessions
           ELSE IF session_id \notin DOMAIN sessions /\ ~IsChatSession(session_id, user_id)
           THEN /\ reply' = DialogueError("Error processing user message")
                /\ UNCHANGED sessions
           ELSE IF ~IsChatMessage(user_message_data)
           THEN /\ reply' = DialogueError("Error processing user message")
                /\ sessions' = Store(sessions, session_id, session)
           ELSE /\ Len(session.messages) + 2 <= MaxHistory
                /\ reply' = DialogueResponse(response_message, session_id,
                                             PathOf(session, retrieval_response),
                                             IF session.document_ids = <<>>
                                             THEN "not_called"
                                             ELSE retrieval_response.type)
                /\ sessions' = Store(sessions, session_id,
                      [session EXCEPT !.messages =
                          Append(Append(@, user_message), response_message)])
        /\ UNCHANGED <<messagingVars, retrievalVars, stateVars>>

\* The content of a process_user_message Command with the parameters named in
\* given; the action is in the tokens the orchestrator matches prefixes on.
ProcessUserMessage(given, message, session_id, user_id, attached) ==
    [k \in {"action"} \cup given |->
        CASE k = "action" -> <<"process_user_message">>
          [] k = "message" -> message
          [] k = "session_id" -> session_id
          [] k = "user_id" -> user_id
          [] k = "documents" -> attached]

\* The message of a user as the chat interface sends it (ChatMessage.dict()),
\* and one that gives role and content only.
FullMessage(user_id, session_id) ==
    [user_id |-> user_id, session_id |-> session_id, role |-> "user",
     content |-> "hello"]
BareMessage == [role |-> "user", content |-> "hello"]

ProcessCommands ==
    {ProcessUserMessage({"message", "session_id", "user_id"},
                        BareMessage, "s1", "u1", <<>>),
     ProcessUserMessage({"message", "session_id", "user_id", "documents"},
                        BareMessage, "s2", "u1", <<"d1">>),
     ProcessUserMessage({"message", "session_id", "user_id"},
                        FullMessage("u1", "s1"), "s1", "u1", <<>>),
     ProcessUserMessage({"message", "session_id", "user_id", "documents"},
                        FullMessage("u1", "s1"), "s1", "u1", <<>>),
     ProcessUserMessage({"message", "session_id", "user_id", "documents"},
                        FullMessage("u1", "s2"), "s2", "u1", <<"d1">>),
     ProcessUserMessage({"message", "session_id"},
                        FullMessage("u1", "s2"), "s2", "u1", <<>>),
     ProcessUserMessage({"message", "user_id"},
                        FullMessage("u1", "s1"), "s1", "u1", <<>>),
     ProcessUserMessage({"message", "session_id", "user_id"},
                        EmptyDict, "s1", "u1", <<>>),
     ProcessUserMessage({"session_id", "user_id"},
                        EmptyDict, "s1", "u1", <<>>)}

\* The dialogue agent handling its Commands one after the other.
NextDialogue ==
    \E c \in ProcessCommands, r \in RetrievalReplies, l \in LlmReplies :
        handle_process_user_message(c, r, l)

SpecDialogue == Init /\ [][NextDialogue]_vars

\* ------------------------------------------------ dialogue agent: sessions
\* The users that send session Commands; "u1" owns every stored session.
UserIds == {"u1", "u2", ""}

\* dict without a key: `del self.sessions[session_id]`.
Deleted(store, session_id) == [s \in DOMAIN store \ {session_id} |-> store[s]]

\* The Response of get_session and of delete_session.
SessionResponse(session) ==
    [type |-> "response", session |-> session, retrieval |-> "not_called"]
DeletedResponse(session_id) ==
    [type |-> "response", status |-> "success", session_id |-> session_id,
     retrieval |-> "not_called"]

\* `if user_id and session.user_id != user_id`: the request is refused.
PermissionDenied(session, user_id) == ~Falsy(user_id) /\ session.user_id # user_id

\* DialogueAgent._handle_get_session on the Command content c.
handle_get_session(c) ==
    LET session_id == Get(c, "session_id", "none")
        user_id == Get(c, "user_id", "none")
    IN  /\ command' = c
        /\ reply' =
              IF Falsy(session_id) THEN DialogueError("Missing session_id parameter")
              ELSE IF session_id \notin DOMAIN sessions
              THEN DialogueError("Session not found")
              ELSE IF PermissionDenied(sessions[session_id], user_id)
              THEN DialogueError("Permission denied: session belongs to another user")
              ELSE SessionResponse(sessions[session_id])
        /\ UNCHANGED <<sessions, messagingVars, retrievalVars, stateVars>>

\* DialogueAgent._handle_delete_session on the Command content c.
handle_delete_session(c) ==
    LET session_id == Get(c, "session_id", "none")
        user_id == Get(c, "user_id", "none")
    IN  /\ command' = c
        /\ IF Falsy(session_id)
           THEN /\ reply' = DialogueError("Missing session_id parameter")
                /\ UNCHANGED sessions
           ELSE IF session_id \notin DOMAIN sessions
           THEN /\ reply' = DialogueError("Session not found")
                /\ UNCHANGED sessions
           ELSE IF PermissionDenied(sessions[session_id], user_id)
           THEN /\ reply' = DialogueError("Permission denied: session belongs to another user")
                /\ UNCHANGED sessions
           ELSE /\ reply' = DeletedResponse(session_id)
                /\ sessions' = Deleted(sessions, session_id)
        /\ UNCHANGED <<messagingVars, retrievalVars, stateVars>>

\* The content of a get_session or delete_session Command with the
\* parameters named in given.
SessionCommand(action, given, session_id, user_id) ==
    [k \in {"action"} \cup given |->
        CASE k = "action" -> action
          [] k = "session_id" -> session_id
          [] k = "user_id" -> user_id]

\* The session Commands of every user, with and without each parameter.
SessionCommands(action) ==
    {SessionCommand(action, given, session_id, user_id) :
        given \in SUBSET {"session_id", "user_id"},
        session_id \in SessionIds, user_id \in UserIds}

\* The dialogue agent handling process_user_message, get_session and
\* delete_session Commands one after the other.
NextSessions ==
    \/ NextDialogue
    \/ \E c \in SessionCommands(<<"get_session">>) : handle_get_session(c)
    \/ \E c \in SessionCommands(<<"delete_session">>) : handle_delete_session(c)

SpecSessions == Init /\ [][NextSessions]_vars

\* ------------------------------------------------------------ state manager
\* The longest list update_state is let to build.
MaxList == 2

\* An exception that leaves the call.
TypeError == [raise |-> "TypeError"]

\* dict[key] = value.
Put(items, key, value) ==
    [k \in DOMAIN items \cup {key} |-> IF k = key THEN value ELSE items[k]]

\* get_state, the walk down the parts of the key: `current = current[part]`,
\* None on a KeyError (no such part) or TypeError (current is not a dict).
RECURSIVE GetPath(_, _)
GetPath(current, parts) ==
    IF parts = <<>> THEN current
    ELSE IF IsDict(current) /\ Head(parts) \in DOMAIN current.dict
    THEN GetPath(current.dict[Head(parts)], Tail(parts))
    ELSE NoValue

\* set_state, the walk to the parent (a missing part becomes {}) and the
\* assignment `current[path_parts[-1]] = value`; a list or a str on the way
\* raises TypeError.
RECURSIVE SetPath(_, _, _)
SetPath(current, parts, value) ==
    IF ~IsDict(current) THEN TypeError
    ELSE IF Len(parts) = 1 THEN Dict(Put(current.dict, parts[1], value))
    ELSE LET child == IF Head(parts) \in DOMAIN current.dict
                      THEN current.dict[Head(parts)]
                      ELSE Dict([x \in {} |-> x])
             below == SetPath(child, Tail(parts), value)
         IN  IF below = TypeError THEN TypeError
             ELSE Dict(Put(current.dict, Head(parts), below))

\* update_state, the value it stores: value itself when the key is not set,
\* {**current_value, **value} for two dicts, current_value + value for two
\* lists, value otherwise.
Merged(current_value, value) ==
    IF current_value = NoValue THEN value
    ELSE IF IsDict(current_value) /\ IsDict(value)
    THEN Dict([k \in DOMAIN current_value.dict \cup DOMAIN value.dict |->
                 IF k \in DOMAIN value.dict THEN value.dict[k]
                 ELSE current_value.dict[k]])
    ELSE IF IsList(current_value) /\ IsList(value)
    THEN List(current_value.list \o value.list)
    ELSE value

\* A call of the state manager about to enter `with self._lock`; got is what
\* the call it made returned, ret what it returns itself.
Frame(op, key, value) ==
    [op |-> op, key |-> key, value |-> value, pc |-> "acquire", got |-> NoValue,
     ret |-> NoValue, exc |-> FALSE]

\* The call of thread t that is executing, and the stack with it replaced.
Top(t) == frames[t][Len(frames[t])]
WithTop(t, frame) == [frames[t] EXCEPT ![Len(frames[t])] = frame]

\* threading.Lock.acquire: the lock is free; the thread that holds it waits
\* like any other.
CanAcquire(t) == lock = "free"

\* A thread calls get_state, set_state or update_state.
StateCall(t, op, key, value) ==
    /\ frames[t] = <<>>
    /\ frames' = [frames EXCEPT ![t] = <<Frame(op, key, value)>>]
    /\ UNCHANGED <<state, lock, messagingVars, retrievalVars, dialogueVars>>

\* `with self._lock:` of the call that is executing.
StateAcquire(t) ==
    /\ frames[t] # <<>> /\ Top(t).pc = "acquire"
    /\ CanAcquire(t)
    /\ lock' = t
    /\ frames' = [frames EXCEPT ![t] = WithTop(t, [Top(t) EXCEPT !.pc = "body"])]
    /\ UNCHANGED <<state, messagingVars, retrievalVars, dialogueVars>>

\* The body of the call that is executing, up to the next call it makes or
\* to its end: get_state reads, set_state writes, update_state calls
\* get_state, then set_state with the merged value.
StateBody(t) ==
    /\ frames[t] # <<>> /\ Top(t).pc \in {"body", "merge", "stored"}
    /\ LET f == Top(t) IN
       CASE f.op = "get_state" ->
               /\ frames' = [frames EXCEPT ![t] = WithTop(t,
                     [f EXCEPT !.pc = "exit", !.ret = GetPath(state, f.key)])]
               /\ UNCHANGED state
         [] f.op = "set_state" ->
               LET written == SetPath(state, f.key, f.value) IN
               /\ state' = IF written = TypeError THEN state ELSE written
               /\ frames' = [frames EXCEPT ![t] = WithTop(t,
                     [f EXCEPT !.pc = "exit", !.exc = (written = TypeError)])]
         [] f.op = "update_state" /\ f.pc = "body" ->
               /\ frames' = [frames EXCEPT ![t] =
                     Append(WithTop(t, [f EXCEPT !.pc = "merge"]),
                            Frame("get_state", f.key, NoValue))]
               /\ UNCHANGED state
         [] f.op = "update_state" /\ f.pc = "merge" ->
               /\ IsList(Merged(f.got, f.value))
                     => Len(Merged(f.got, f.value).list) <= MaxList
               /\ frames' = [frames EXCEPT ![t] =
                     Append(WithTop(t, [f EXCEPT !.pc = "stored"]),
                            Frame("set_state", f.key, Merged(f.got, f.value)))]
               /\ UNCHANGED state
         [] f.op = "update_state" /\ f.pc = "stored" ->
               /\ frames' = [frames EXCEPT ![t] = WithTop(t, [f EXCEPT !.pc = "exit"])]
               /\ UNCHANGED state
    /\ UNCHANGED <<lock, messagingVars, retrievalVars, dialogueVars>>

\* The end of the `with` block of the call that is executing: the lock is
\* released and the call returns (or raises) to its caller.
StateExit(t) ==
    /\ frames[t] # <<>> /\ Top(t).pc = "exit"
    /\ lock' = "free"
    /\ LET f == Top(t)
           rest == SubSeq(frames[t], 1, Len(frames[t]) - 1) IN
       frames' = [frames EXCEPT ![t] =
          IF rest = <<>> THEN <<>>
          ELSE [rest EXCEPT ![Len(rest)] =
                   IF f.exc THEN [@ EXCEPT !.pc = "exit", !.exc = TRUE]
                   ELSE [@ EXCEPT !.got = f.ret]]]
    /\ UNCHANGED <<state, messagingVars, retrievalVars, dialogueVars>>

\* The keys and the values the threads call the state manager with.
StateKeys == {<<"users">>, <<"users", "u1">>}
StateValues == {Scalar("v"), List(<<"x">>), Dict([k \in {"a"} |-> Scalar("1")])}

NextState ==
    \/ \E t \in StateThreads, key \in StateKeys :
          StateCall(t, "get_state", key, NoValue)
    \/ \E t \in StateThreads, key \in StateKeys, value \in StateValues :
          \/ StateCall(t, "set_state", key, value)
          \/ StateCall(t, "update_state", key, value)
    \/ \E t \in StateThreads : StateAcquire(t)
    \/ \E t \in StateThreads : StateBody(t)
    \/ \E t \in StateThreads : StateExit(t)

SpecState == Init /\ [][NextState]_vars

\* A thread that can take a step takes it eventually: a call that has
\* started runs on, a thread that waits for the lock gets its turn when the
\* lock is free.
FairState ==
    \A t \in StateThreads :
        /\ SF_vars(StateAcquire(t))
        /\ WF_vars(StateBody(t) \/ StateExit(t))

FairSpecState == SpecState /\ FairState

TypeOK ==
    /\ DOMAIN subscribers \subseteq AgentType
    /\ \A c \in DOMAIN response_handlers :
          response_handlers[c] \in CallerThreads \cup PlainHandlers
    /\ \A t \in CallerThreads : callerPc[t] \in {"idle", "inflight", "finally", "done"}
    /\ \A l \in LoopThreads : loopPc[l] \in {"dead", "top", "get", "handle"}

\* ================================================================ claims
PublishedMessages == {p.msg : p \in published}

\* C3: publish(m) with m a Response or Error, a correlation_id and a handler
\* registered under it invokes exactly that handler (the closure of the
\* caller whose request has that id) and returns in that step, without
\* invoking any subscriber callback of m.receiver.
C3_HandlerBypassesSubscribers ==
    [][\A t \in Threads :
          (/\ pub[t].phase = "check"
           /\ pub[t].msg.correlation_id \in DOMAIN response_handlers
           /\ pub'[t] # pub[t])
          => LET m == pub[t].msg
                 h == response_handlers[m.correlation_id] IN
             /\ callerMsg[h].id = m.correlation_id
             /\ pub'[t].phase = "idle"
             /\ inbox' = inbox
             /\ container' = [container EXCEPT ![h] = m]
             /\ event' = [event EXCEPT ![h] = TRUE]
             /\ \A e \in invoked' \ invoked :
                    e.msg = m.id /\ e.via = "handler" /\ e.to = h
             /\ \E r \in returns' : r.msg = m /\ r.how = "handler" /\ ~r.exc]_vars

\* C3 witness: a reply went to its handler while its receiver had a
\* subscribed callback that normal delivery would have invoked.
C3_Witness ==
    \E r \in returns :
        /\ r.how = "handler"
        /\ GetSubscribers(subscribers, r.msg.receiver) # <<>>
        /\ \A e \in invoked : e.msg = r.msg.id => e.via = "handler"

\* C9: publish(m) to a receiver with zero subscribers (the identity was
\* never subscribed, or its callbacks were all removed by unsubscribe)
\* returns in its lookup step, raises nothing, and leaves the
\* response-handler table and the subscriber table as they were.
C9_DropLeavesTablesAlone ==
    [][\A t \in Threads :
          (/\ pub[t].phase = "lookup"
           /\ GetSubscribers(subscribers, pub[t].msg.receiver) = <<>>
           /\ pub'[t] # pub[t])
          => /\ pub'[t].phase = "idle"
             /\ subscribers' = subscribers
             /\ response_handlers' = response_handlers
             /\ inbox' = inbox
             /\ invoked' = invoked
             /\ \E r \in returns' : r.msg = pub[t].msg /\ r.how = "dropped" /\ ~r.exc]_vars

\* C9 witness: a request was dropped because unsubscribe had emptied the
\* list of its receiver, while the caller's handler sat in the handler table.
C9_Witness ==
    \E r \in returns :
        /\ r.how = "dropped"
        /\ r.msg.receiver \in DOMAIN subscribers
        /\ subscribers[r.msg.receiver] = <<>>
        /\ r.msg.id \in DOMAIN response_handlers

\* C10: when publish(m) delivers to the subscriber callbacks of m.receiver
\* and one of them raises, every callback of the list it iterates is still
\* invoked with m and publish returns normally (no exception reaches its
\* caller).
C10_RaisingCallbackIsolated ==
    \A r \in returns :
        r.how = "delivered"
        => /\ ~r.exc
           /\ \A i \in 1..Len(r.subs) :
                 \E e \in invoked :
                    e.msg = r.msg.id /\ e.via = "callback" /\ e.to = r.subs[i]

\* C10 witness: a delivery whose list had a raising callback before another
\* callback has completed.
C10_Witness ==
    \E r \in returns :
        /\ r.how = "delivered"
        /\ \E i, j \in 1..Len(r.subs) : i < j /\ Raises(r.subs[i]) /\ ~Raises(r.subs[j])

\* C6: the response-handler table does not leak: it holds an entry under
\* message.id, naming the caller's own handler, exactly while that caller is
\* inside send_message_and_wait (registered before the publish, removed by
\* the finally block on the response path and on the timeout path); once
\* every call has returned the table is empty.
C6_HandlerTableDoesNotLeak ==
    /\ DOMAIN response_handlers =
          {callerMsg[t].id : t \in {u \in CallerThreads :
                                       callerPc[u] \in {"inflight", "finally"}}}
    /\ \A t \in CallerThreads :
          callerPc[t] \in {"inflight", "finally"}
          => response_handlers[callerMsg[t].id] = t

\* C6 witness: one call has returned a response, the other has timed out,
\* and the table is empty again.
C6_Witness ==
    /\ callerPc["t1"] = "done" /\ result["t1"] # None
    /\ callerPc["t2"] = "done" /\ result["t2"] = None
    /\ response_handlers = <<>>

IsReplyTo(m, id) ==
    /\ m.message_type \in {"response", "error"}
    /\ m.correlation_id = id

\* C7: two send_message_and_wait calls outstanding at the same time with
\* distinct message ids do not interfere: in whatever order the responses
\* are published, what a caller's handler stores and what the caller
\* returns is a Response or Error whose correlation_id is its own message id.
C7_NoCrossTalk ==
    \A t \in CallerThreads :
        /\ container[t] # None => IsReplyTo(container[t], callerMsg[t].id)
        /\ (callerPc[t] \in {"finally", "done"} /\ result[t] # None)
              => IsReplyTo(result[t], callerMsg[t].id)
        /\ \A e \in invoked :
              (e.via = "handler" /\ e.to = t) => e.msg = Append(callerMsg[t].id, "r")

\* C7 witness: t1 called first, t2 called while t1 was outstanding, t2 was
\* resolved first (reverse order), and both returned their own response.
C7_Witness ==
    /\ \E p \in published : p.by = "t2" /\ "t1" \in p.pending
    /\ \E e \in invoked : e.via = "handler" /\ e.to = "t2" /\ "t1" \in e.pending
    /\ \A t \in CallerThreads :
          callerPc[t] = "done" /\ IsReplyTo(result[t], callerMsg[t].id)

\* The Command a published entry answers or forwards.
CommandOf(id) == CHOOSE m \in PublishedMessages : m.id = id

\* C1: for every Command C sent with send_message_and_wait to a subscribed,
\* running agent whose handling runs to completion, the call returns a
\* Response or Error with correlation_id = C.id; it returns None only when
\* the handling had not completed by the time the wait timed out.
C1_AnsweredUnlessHandlerLate ==
    \A t \in CallerThreads :
        callerPc[t] \in {"finally", "done"}
        => \/ IsReplyTo(result[t], callerMsg[t].id)
           \/ result[t] = None /\ t \notin noneAfterHandled

\* C2: when the orchestrator forwards a caller's Command (prefix dispatch or
\* route), the terminal Response or Error of the target carries the
\* correlation_id of the caller's original message, not the id of the
\* forwarded message.
C2_ReplyCarriesOriginalId ==
    \A p \in published :
        (/\ p.msg.message_type \in {"response", "error"}
         /\ \E f \in published :
               /\ f.by = "orchestrator" /\ f.msg.message_type = "command"
               /\ f.msg.id = p.re)
        => \E f \in published :
              /\ f.msg.id = p.re
              /\ p.msg.correlation_id = f.msg.correlation_id
              /\ p.msg.correlation_id # f.msg.id

\* What an agent published while handling the message with this id.
PublishedFor(id) == {p \in published : p.re = id}

IsTerminalFor(p, c) ==
    /\ p.msg.message_type \in {"response", "error"}
    /\ p.msg.correlation_id = c.id
    /\ p.msg.receiver = c.sender
    /\ p.by = c.receiver /\ p.msg.sender = c.receiver

IsForwardable(c) ==
    /\ c.receiver = "orchestrator"
    /\ \/ /\ c.content.action = <<"route">>
          /\ c.content.target_agent # "none" /\ c.content.payload # <<>>
       \/ /\ c.content.action \notin {<<"ping">>, <<"get_agent_status">>, <<"route">>}
          /\ DispatchTarget(c.content.action) # "none"

C5_LateReplyDropped ==
    \A t \in CallerThreads : \A p \in published :
        (/\ callerPc[t] = "done" /\ result[t] = None
         /\ IsReplyTo(p.msg, callerMsg[t].id))
        => ~\E e \in invoked : e.msg = p.msg.id /\ e.via = "callback"

\* C5 as amended: a reply never reaches a waiter whose call has returned (a
\* handler is invoked only while its caller is inside send_message_and_wait,
\* and a returned value never changes afterwards); a reply that finds no
\* handler under its correlation_id is treated like any other message: it
\* goes on to the lookup of its receiver's subscribers, is delivered to each
\* of them when there are any, and is dropped only when there are none.
C5_LateReplyGoesToSubscribers ==
    /\ [](\A e \in invoked :
            e.via = "handler" => e.state \in {"inflight", "finally"})
    /\ [][\A t \in CallerThreads :
            callerPc[t] = "done" => result'[t] = result[t] /\ callerPc'[t] = "done"]_vars
    /\ [][\A t \in Threads :
            (/\ pub[t].phase = "check"
             /\ pub[t].msg.correlation_id \notin DOMAIN response_handlers
             /\ pub'[t] # pub[t])
            => /\ pub'[t].phase = "lookup" /\ pub'[t].msg = pub[t].msg
               /\ container' = container /\ event' = event
               /\ invoked' = invoked /\ returns' = returns]_vars
    /\ [](\A r \in returns :
            (IsCorrelatedReply(r.msg) /\ r.how # "handler")
            => IF r.subs = <<>> THEN r.how = "dropped"
               ELSE /\ r.how = "delivered"
                    /\ \A i \in 1..Len(r.subs) :
                          \E e \in invoked :
                             e.msg = r.msg.id /\ e.via = "callback" /\ e.to = r.subs[i])

\* C5 witness: the call timed out and returned None, and the late reply to
\* it was then put into the inbox of its receiver's agent.
C5_Witness ==
    \E t \in CallerThreads :
        /\ callerPc[t] = "done" /\ result[t] = None
        /\ \E r \in returns :
              /\ r.msg.correlation_id = callerMsg[t].id
              /\ r.msg.message_type \in {"response", "error"}
              /\ r.how = "delivered"
              /\ \E e \in invoked :
                    e.msg = r.msg.id /\ e.via = "callback" /\ e.to = r.msg.receiver

\* The caller's request found no subscriber for its receiver and was dropped.
Dropped(t) ==
    \E r \in returns : r.msg = callerMsg[t] /\ r.by = t /\ r.how = "dropped"

\* C8: send_message_and_wait against a receiver that has no subscriber
\* returns None, after the timeout has elapsed and not before, and it does
\* return; nothing (no Error, no Response) is published in answer to the
\* dropped request.
C8_NoSubscriberTimesOut ==
    /\ [](\A t \in CallerThreads :
            Dropped(t)
            => /\ ~event[t]
               /\ \A p \in published :
                     p.re # callerMsg[t].id /\ p.msg.correlation_id # callerMsg[t].id
               /\ callerPc[t] \in {"finally", "done"}
                     => result[t] = None /\ timer[t] = TimeoutTicks)
    /\ \A t \in CallerThreads : Dropped(t) ~> (callerPc[t] = "done")

\* C8 witness: the request was dropped, the whole timeout was waited and the
\* call has returned None.
C8_Witness ==
    \E t \in CallerThreads :
        /\ Dropped(t)
        /\ callerPc[t] = "done" /\ result[t] = None /\ timer[t] = TimeoutTicks

\* C11: when handle_message raises on a Command the agent publishes an Error
\* addressed to the Command's sender with correlation_id = the Command's id;
\* the loop goes on: a process_messages thread ends only at its check of a
\* cleared running flag, never in the step that handles a message, and every
\* message put in the inbox of a running agent, the ones behind a failing
\* message included, is eventually handled.
C11_RaiseAnsweredLoopContinues ==
    /\ [](\A p \in published :
            p.raised
            => LET c == CommandOf(p.re) IN
               /\ c.message_type = "command"
               /\ p.by = c.receiver /\ p.msg.sender = c.receiver
               /\ p.msg.message_type = "error"
               /\ p.msg.receiver = c.sender
               /\ p.msg.correlation_id = c.id)
    /\ [][\A l \in LoopThreads :
            (loopPc[l] # "dead" /\ loopPc'[l] = "dead")
            => (loopPc[l] = "top" /\ ~running[Owner(l)])]_vars
    /\ []<>(\A a \in Agents :
              running[a] => \A i \in 1..Len(seen[a]) : seen[a][i] \in handled)

\* C11 witness: the handling of a Command raised and was answered with the
\* Error, and a message that was behind it in the same inbox has been handled.
C11_Witness ==
    \E p \in published : \E a \in Agents :
        /\ p.raised /\ p.by = a
        /\ \E i, j \in 1..Len(seen[a]) :
              i < j /\ seen[a][i] = p.re /\ seen[a][j] \in handled

\* C12: the orchestrator never silently drops a Command it received
\* directly: for every Command it has handled it has published a Response
\* or an Error to the Command's sender, or it has forwarded a Command that
\* publish() delivered to a subscriber of the target.
C12_NothingSilentlyDropped ==
    \A id \in handled :
        LET c == CommandOf(id) IN
        (c.message_type = "command" /\ c.receiver = "orchestrator")
        => \E p \in PublishedFor(id) :
              \/ IsTerminalFor(p, c)
              \/ /\ p.msg.message_type = "command"
                 /\ \E r \in returns : r.msg = p.msg /\ r.how = "delivered"

\* The action is none of the orchestrator's built-ins.
IsDispatched(c) ==
    /\ c.message_type = "command" /\ c.receiver = "orchestrator"
    /\ c.content.action \notin {<<"ping">>, <<"get_agent_status">>, <<"route">>}

\* The first word of an action name, up to the cut of the prefix table.
FirstToken(action) == IF action = <<>> THEN "" ELSE action[1]

\* The table of the specification, row by row.
TableTarget(action) ==
    CASE FirstToken(action) \in {"process_document", "get_document"} -> "document_processing"
      [] FirstToken(action) \in {"retrieve_", "search_"} -> "information_retrieval"
      [] FirstToken(action) \in {"generate_", "translate_"} -> "llm"
      [] FirstToken(action) \in {"auth_", "login_"} -> "security"
      [] FirstToken(action) \in {"chat_", "process_user_message"} -> "dialogue"
      [] OTHER -> "none"

\* The Command the loop of the orchestrator is about to handle.
Dispatching(c) ==
    /\ loopPc["orchestrator"] = "handle" /\ loopPc'["orchestrator"] # "handle"
    /\ c = cur["orchestrator"]
    /\ IsDispatched(c)

\* C13: a non-built-in Command whose action matches no prefix, or whose
\* target is not in the registry at that moment, makes the orchestrator
\* publish exactly one message: an Error to the Command's sender with
\* correlation_id = the Command's id that names the unknown action or the
\* unavailable worker; no Command is forwarded.
C13_UndispatchableGetsOneError ==
    [][\A c \in {cur["orchestrator"]} :
          (Dispatching(c) /\ TableTarget(c.content.action) \notin registered_agents)
          => \E p \in published' :
                /\ published' = published \cup {p} /\ p \notin published
                /\ p.re = c.id /\ p.by = "orchestrator" /\ ~p.raised
                /\ p.msg.message_type = "error"
                /\ p.msg.sender = "orchestrator" /\ p.msg.receiver = c.sender
                /\ p.msg.correlation_id = c.id
                /\ p.msg.content.error =
                      IF TableTarget(c.content.action) = "none"
                      THEN "unknown_action" ELSE "agent_not_available"
                /\ pub'["orchestrator"].msg = p.msg]_vars

\* C13 witness: both Errors have been published, the one for an action no
\* prefix matches and the one for a worker that is subscribed and running
\* but not in the registry.
C13_Witness ==
    /\ \E p \in published :
          /\ p.msg.content.error = "unknown_action"
          /\ p.re # NoId /\ CommandOf(p.re).content.action = <<"x", "chat_">>
    /\ \E p \in published :
          /\ p.msg.content.error = "agent_not_available"
          /\ p.re # NoId /\ TableTarget(CommandOf(p.re).content.action) = "dialogue"
          /\ running["dialogue"]

\* The one entry a step added to the history of published messages.
NewlyPublished(p) ==
    /\ p \notin published
    /\ published' = published \cup {p}

\* C14: for a Command whose action is not ping, get_agent_status or route
\* the orchestrator picks the target by the prefix of the action name as the
\* table says: what it forwards goes to the table's target, the Error
\* "unknown action" is published exactly for the names no row matches (a
\* missing action included), and the Error "not available" only for a name
\* some row matches.
C14_TargetByPrefixTable ==
    [][\A c \in {cur["orchestrator"]} :
          Dispatching(c)
          => \E p \in published' :
                /\ NewlyPublished(p)
                /\ p.msg.message_type = "command"
                      => p.msg.receiver = TableTarget(c.content.action)
                /\ p.msg.message_type = "error"
                      => (p.msg.content.error = "unknown_action"
                            <=> TableTarget(c.content.action) = "none")
                /\ TableTarget(c.content.action) = "none"
                      => p.msg.message_type = "error"]_vars

\* C14 witness: a name of each row has been forwarded to the row's worker
\* (here a translate_ and a chat_ Command) and a name that holds a prefix
\* without starting with it has been refused.
C14_Witness ==
    /\ \E p \in published :
          /\ p.msg.message_type = "command" /\ p.msg.receiver = "llm"
          /\ CommandOf(p.re).content.action = <<"translate_", "x">>
    /\ \E p \in published :
          /\ p.msg.message_type = "command" /\ p.msg.receiver = "dialogue"
          /\ CommandOf(p.re).content.action = <<"chat_", "x">>

\* C15: when the dispatch succeeds (a row matches and its worker is in the
\* registry) the orchestrator publishes exactly one message, a new Command
\* to the matched worker whose content is the original content, whose
\* correlation_id is the original id and whose priority is the original
\* priority; it publishes no Response and no Error.
C15_ForwardKeepsContentIdPriority ==
    [][\A c \in {cur["orchestrator"]} :
          (Dispatching(c) /\ TableTarget(c.content.action) \in registered_agents)
          => \E p \in published' :
                /\ NewlyPublished(p)
                /\ p.re = c.id /\ p.by = "orchestrator" /\ ~p.raised
                /\ p.msg.message_type = "command"
                /\ p.msg.sender = "orchestrator"
                /\ p.msg.receiver = TableTarget(c.content.action)
                /\ p.msg.content = c.content
                /\ p.msg.correlation_id = c.id
                /\ p.msg.priority = c.priority
                /\ p.msg.id # c.id
                /\ pub'["orchestrator"].msg = p.msg]_vars

\* C15 witness: a Command of low priority and one of medium priority have
\* been forwarded with their own priorities.
C15_Witness ==
    /\ \E p \in published :
          /\ p.by = "orchestrator" /\ p.msg.message_type = "command"
          /\ IsDispatched(CommandOf(p.re)) /\ p.msg.priority = "low"
    /\ \E p \in published :
          /\ p.by = "orchestrator" /\ p.msg.message_type = "command"
          /\ IsDispatched(CommandOf(p.re)) /\ p.msg.priority = "medium"

\* The loop of the orchestrator is about to handle this route Command.
Routing(c) ==
    /\ loopPc["orchestrator"] = "handle" /\ loopPc'["orchestrator"] # "handle"
    /\ c = cur["orchestrator"]
    /\ c.message_type = "command" /\ c.content.action = <<"route">>

\* The Command a route forwards.
IsRouted(p, c) ==
    /\ p.msg.message_type = "command"
    /\ p.msg.receiver = c.content.target_agent
    /\ p.msg.content = Content(c.content.payload, "none", <<>>, "none", "none")
    /\ p.msg.correlation_id = c.id

\* The Error that answers a route Command.
IsRouteError(p, c) ==
    /\ p.msg.message_type = "error"
    /\ p.msg.receiver = c.sender
    /\ p.msg.correlation_id = c.id

\* C16 as claimed: a route Command with target_agent and payload makes the
\* orchestrator publish one new Command to target_agent with content =
\* payload and correlation_id = the original id; a route Command lacking
\* either gets an Error to the sender with that correlation_id and nothing
\* is forwarded.
C16_RouteForwardsOrRefuses ==
    [][\A c \in {cur["orchestrator"]} :
          Routing(c)
          => \E p \in published' :
                /\ NewlyPublished(p)
                /\ IF c.content.target_agent # "none" /\ c.content.payload # <<>>
                   THEN IsRouted(p, c)
                   ELSE IsRouteError(p, c)]_vars

\* C16 as amended: the forward happens when target_agent is an agent
\* identity and payload a non-empty mapping; a route Command lacking either
\* gets the Error naming the missing field; one whose target_agent is no
\* agent identity or whose payload is no mapping gets the Error of the
\* loop's except branch; every Error goes to the sender with correlation_id
\* = the original id and nothing is forwarded with it.
C16_RouteForwardsValidOrRefuses ==
    [][\A c \in {cur["orchestrator"]} :
          Routing(c)
          => \E p \in published' :
                /\ NewlyPublished(p)
                /\ p.re = c.id /\ p.by = "orchestrator"
                /\ pub'["orchestrator"].msg = p.msg
                /\ IF c.content.target_agent = "none"
                   THEN IsRouteError(p, c) /\ ~p.raised
                        /\ p.msg.content.error = "missing_target_agent"
                   ELSE IF c.content.payload = <<>>
                   THEN IsRouteError(p, c) /\ ~p.raised
                        /\ p.msg.content.error = "missing_payload"
                   ELSE IF \/ c.content.target_agent \notin AgentType
                           \/ c.content.payload = NotAMapping
                   THEN IsRouteError(p, c) /\ p.raised
                        /\ p.msg.content.error = "error_processing_command"
                   ELSE IsRouted(p, c) /\ ~p.raised]_vars

\* C16 witness: a route to a worker has been forwarded and delivered, and a
\* route to a name that is no agent identity has been answered with the
\* Error of the except branch.
C16_Witness ==
    /\ \E p \in published : \E r \in returns :
          /\ p.re # NoId /\ CommandOf(p.re).content.action = <<"route">>
          /\ p.msg.message_type = "command" /\ p.msg.receiver = "dialogue"
          /\ r.msg = p.msg /\ r.how = "delivered"
    /\ \E p \in published :
          /\ p.re # NoId /\ CommandOf(p.re).content.action = <<"route">>
          /\ CommandOf(p.re).content.target_agent = "nobody"
          /\ p.raised /\ p.msg.message_type = "error"

\* The process_messages threads of an agent that have not exited.
LiveLoops(a) == {l \in LoopThreads : Owner(l) = a /\ loopPc[l] # "dead"}

\* C17: start() is idempotent: once the start() calls made on an agent that
\* was never stopped have returned, the broker holds exactly one
\* subscription of the agent's receive callback under its identity and
\* exactly one processing loop of the agent is alive.
C17_StartIdempotent ==
    \A a \in Agents :
        (running[a] /\ starting[a] = 0)
        => /\ GetSubscribers(subscribers, a) = <<a>>
           /\ Cardinality(LiveLoops(a)) = 1

\* C18 as claimed: when stop() returns the agent is stopped: the running
\* flag is clear, every processing loop of the agent has exited and the
\* broker holds no callback for the agent's identity.
C18_StopLeavesNoLoop ==
    [][\A a \in Agents :
          (stopping[a] /\ ~stopping'[a])
          => /\ ~running'[a]
             /\ \A l \in LoopThreads : Owner(l) = a => loopPc'[l] = "dead"
             /\ GetSubscribers(subscribers', a) = <<>>]_vars

\* C18 as amended: stop() clears the running flag and leaves the
\* subscriptions alone, waits for the loop it joins, then unsubscribes: when
\* it returns the flag is clear, the broker holds no callback for the
\* identity, and the joined loop has exited or is still inside
\* handle_message (the bounded join ran out); a loop ends at its first check
\* of a clear flag and dequeues only after a check that found the flag set;
\* stop() on a stopped agent (never started, or stopped before) changes
\* nothing.
C18_StopOrderedBoundedJoin ==
    /\ [][\A a \in Agents :
            (~stopping[a] /\ stopping'[a])
            => (~running'[a] /\ subscribers' = subscribers /\ loopPc' = loopPc)]_vars
    /\ [][\A a \in Agents :
            (stopping[a] /\ ~stopping'[a])
            => /\ ~running[a] /\ ~running'[a]
               /\ GetSubscribers(subscribers', a) = <<>>
               /\ thread'[a] = "none"
               /\ thread[a] # "none" => loopPc'[thread[a]] \in {"dead", "handle"}]_vars
    /\ [][\A l \in LoopThreads :
            /\ (loopPc[l] = "top" /\ loopPc'[l] # "top")
                  => loopPc'[l] = IF running[Owner(l)] THEN "get" ELSE "dead"
            /\ (loopPc[l] # "handle" /\ loopPc'[l] = "handle")
                  => loopPc[l] = "get"]_vars
    /\ [][\A a \in Agents :
            (/\ stopping[a] # stopping'[a]
             /\ ~running[a] /\ thread[a] = "none"
             /\ GetSubscribers(subscribers, a) = <<>>)
            => /\ running' = running /\ subscribers' = subscribers
               /\ thread' = thread /\ loopPc' = loopPc
               /\ inbox' = inbox /\ pub' = pub]_vars

\* C18 witness: stop() has returned after its join ran out: the flag is
\* clear and the identity has no callback, while the loop is still inside
\* handle_message.
C18_Witness ==
    /\ ~running["dialogue"] /\ ~stopping["dialogue"]
    /\ thread["dialogue"] = "none"
    /\ loopPc["dialogue"] = "handle"
    /\ "dialogue" \in DOMAIN subscribers /\ subscribers["dialogue"] = <<>>

\* The place of an id in a sequence of ids.
Pos(seq, id) == CHOOSE i \in 1..Len(seq) : seq[i] = id

\* C19: messages published to the same receiver reach each of its
\* subscriber callbacks in the order in which the broker took their
\* publish() calls (the order of the locked reads of the subscriber list),
\* also when the calls come from different threads.
C19_DeliveredInPublishOrder ==
    \A cb \in Callbacks :
        \A i, j \in 1..Len(seen[cb]) :
            i < j => Pos(taken, seen[cb][i]) < Pos(taken, seen[cb][j])

\* C20: every Message gets at construction an id that no other Message of the
\* process has: two requests constructed by different callers never carry the
\* same id, so neither registers or removes the other's response handler.
C20_IdsUnique ==
    \A t \in CallerThreads, u \in CallerThreads :
        (t # u /\ callerPc[t] # "idle" /\ callerPc[u] # "idle")
            => callerMsg[t].id # callerMsg[u].id

\* The chunk ids with an entry in the vector mapping of a document, and the
\* chunks in the chunk list of a document.
VectorIds(vecs, document_id) ==
    {GetVectors(vecs, document_id)[i].chunk_id :
        i \in 1..Len(GetVectors(vecs, document_id))}
StoredChunks(docs, document_id) ==
    {GetChunks(docs, document_id)[i] : i \in 1..Len(GetChunks(docs, document_id))}
AllDocumentIds == DocumentIds \cup {UnknownId}

\* C21 as stated: after any sequence of index and remove operations, a
\* stored chunk has an entry in the vector mapping if and only if it was
\* indexed with a non-null embedding, every entry belongs to a stored chunk,
\* and no chunk indexed without an embedding is returned by retrieve.
C21_VectorIffNonNull ==
    /\ \A d \in AllDocumentIds :
          /\ \A chunk \in StoredChunks(documents, d) :
                 chunk.chunk_id \in VectorIds(vectors, d) <=> chunk.embedding # {}
          /\ \A c \in VectorIds(vectors, d) :
                 \E chunk \in StoredChunks(documents, d) : chunk.chunk_id = c
    /\ answer.type = "results" =>
          \A i \in 1..Len(answer.results) :
             ~ \E chunk \in StoredChunks(documents, answer.results[i].document_id) :
                   /\ chunk.chunk_id = answer.results[i].chunk_id
                   /\ chunk.content = answer.results[i].content
                   /\ chunk.embedding = {}

\* C21 amended: a chunk id has an entry in the vector mapping of a document
\* if and only if the document's chunk list holds a chunk of that id that
\* was indexed with a non-empty embedding; every chunk indexed stays in the
\* chunk list until its document is removed; and retrieve returns only
\* chunk ids that have an entry.
C21_VectorIffNonEmpty ==
    /\ \A d \in AllDocumentIds :
          \A c \in VectorIds(vectors, d) \cup
                    {chunk.chunk_id : chunk \in StoredChunks(documents, d)} :
             c \in VectorIds(vectors, d)
                <=> \E chunk \in StoredChunks(documents, d) :
                       /\ chunk.chunk_id = c
                       /\ chunk.embedding # {}
                       /\ chunk.embedding # {<<>>}
    /\ request.action = "add_documents" =>
          \A i \in 1..Len(request.chunks) :
             request.chunks[i] \in StoredChunks(documents, request.chunks[i].document_id)
    /\ answer.type = "results" =>
          \A i \in 1..Len(answer.results) :
             answer.results[i].chunk_id
                \in VectorIds(vectors, answer.results[i].document_id)

\* C21 witness: retrieve over every document returned results while one
\* document held a chunk with an empty embedding next to chunks with
\* vectors and a document held a chunk without embedding.
C21_Witness ==
    /\ answer.type = "results" /\ answer.results # <<>>
    /\ request.filters = EmptyFilters
    /\ \E d \in DocumentIds :
          /\ \E chunk \in StoredChunks(documents, d) : chunk.embedding = {<<>>}
          /\ VectorIds(vectors, d) # {}
    /\ \E d \in DocumentIds :
          \E chunk \in StoredChunks(documents, d) : chunk.embedding = {}

\* How many candidates come before the one at position p when the
\* candidates are put in descending order of score, equals in scan order.
Rank(all, p) ==
    Cardinality({q \in 1..Len(all) :
        \/ ~ScoreGe(all[p].score, all[q].score)
        \/ ScoreEq(all[p].score, all[q].score) /\ q < p})

PairsOf(results) ==
    {<<results[i].document_id, results[i].chunk_id>> : i \in 1..Len(results)}
VectorPairs(vecs, ids) ==
    UNION {{<<d, c>> : c \in VectorIds(vecs, d)} : d \in ids}

\* C23: the filters determine the candidates of retrieve. With a document_id
\* filter, a single id or a list, the candidates are the vectors of the
\* listed ids that are in the index, so every result belongs to one of them
\* and an unknown id contributes nothing; with no filters, absent or empty,
\* the candidates are the vectors of every indexed document.
C23_CandidatesByFilter ==
    request.action = "retrieve" =>
        LET listed == {request.filters.ids[i] : i \in 1..Len(request.filters.ids)}
            indexed == {documents[i].document_id : i \in 1..Len(documents)} IN
        /\ request.filters.kind \in {"single", "list"} =>
              /\ PairsOf(answer.scanned) = VectorPairs(vectors, listed \cap indexed)
              /\ \A i \in 1..Len(answer.results) :
                    answer.results[i].document_id \in listed \cap indexed
        /\ request.filters.kind \in {"absent", "empty"} =>
              PairsOf(answer.scanned) = VectorPairs(vectors, indexed)
        /\ PairsOf(answer.results) \subseteq PairsOf(answer.scanned)

\* C23 witness: a query filtered to one document returned results while
\* another document with vectors was in the index.
C23_Witness ==
    /\ request.action = "retrieve"
    /\ request.filters.kind = "single"
    /\ answer.results # <<>>
    /\ \E d \in DocumentIds :
          /\ d # request.filters.ids[1]
          /\ VectorIds(vectors, d) # {}

\* A step in which the retrieval agent handles a Command of this action
\* (time stands still while a handler runs).
Handling(action) == request'.action = action /\ clock' = clock

\* The cache key of the retrieve Command handled last.
RequestKey ==
    cache_key(request.query, ContentFilters(request.filters), request.num_results)

\* C24: a retrieve Command answered from the cache gets the results that
\* were computed when the entry of its key (query, filters, k) was written,
\* also when documents were indexed since: handling index_document leaves
\* the cache as it is.
C24_HitReproducesOriginal ==
    [][/\ (Handling("retrieve") /\ answer'.type = "response" /\ answer'.how = "cache")
           => /\ RequestKey' \in DOMAIN origin
              /\ answer'.results = origin[RequestKey']
       /\ Handling("index_document") => query_cache' = query_cache]_vars

\* C24 witness: a Command was answered from the cache with results that
\* differ from what the store gives for it now.
C24_Witness ==
    /\ request.action = "retrieve"
    /\ answer.type = "response" /\ answer.how = "cache"
    /\ answer.results # retrieve(documents, vectors, request.query,
                                 ContentFilters(request.filters), request.num_results)

\* C25: a retrieve Command (one with a query) is answered with the results
\* of the cache entry, which stays as it is, exactly when the Command
\* permits cache use, an entry exists under its key (query, filters, k) and
\* the entry's age is strictly under 300; in every other case it is answered
\* with the results computed from the store as it is now, which become the
\* entry of the key.
C25_CacheOnlyIfPermittedAndFresh ==
    [][(Handling("retrieve") /\ answer'.type = "response") =>
         LET key == RequestKey'
             computed == retrieve(documents, vectors, request'.query,
                                  ContentFilters(request'.filters),
                                  request'.num_results) IN
         IF /\ request'.use_cache
            /\ key \in DOMAIN query_cache
            /\ clock - query_cache[key].timestamp < 300
         THEN /\ answer'.results = query_cache[key].results
              /\ query_cache' = query_cache
         ELSE /\ answer'.results = computed
              /\ query_cache'[key] = [results |-> computed, timestamp |-> clock]]_vars

\* C25 witness: a Command was answered from an entry of age 299 that holds
\* fewer results than there are documents in the store now.
C25_Witness ==
    /\ request.action = "retrieve"
    /\ answer.type = "response" /\ answer.how = "cache"
    /\ clock - query_cache[RequestKey].timestamp = 299
    /\ Len(answer.results) < Len(documents)

\* C26: handling remove_document for a document id leaves no chunk and no
\* vector of that document, leaves the chunks and vectors of every other
\* document as they were, answers with the number of chunks the document
\* had (0 for an id that is not in the store), and leaves the query cache
\* empty whatever keys it held.
C26_RemoveDeletesCountsAndClears ==
    [][(Handling("remove_document") /\ answer'.type = "response") =>
         LET d == request'.document_id IN
         /\ \A i \in 1..Len(documents') : documents'[i].document_id # d
         /\ d \notin DOMAIN vectors'
         /\ \A e \in AllDocumentIds \ {d} :
               /\ InDocuments(documents', e) <=> InDocuments(documents, e)
               /\ GetChunks(documents', e) = GetChunks(documents, e)
               /\ e \in DOMAIN vectors' <=> e \in DOMAIN vectors
               /\ GetVectors(vectors', e) = GetVectors(vectors, e)
         /\ answer'.num_chunks_removed = Len(GetChunks(documents, d))
         /\ ~InDocuments(documents, d) => answer'.num_chunks_removed = 0
         /\ query_cache' = <<>>]_vars

\* C26 witness: a document of three chunks was removed while another
\* document stayed in the store with its vectors.
C26_Witness ==
    /\ request.action = "remove_document"
    /\ answer.type = "response" /\ answer.num_chunks_removed = 3
    /\ \E e \in DocumentIds \ {request.document_id} :
          /\ InDocuments(documents, e)
          /\ VectorIds(vectors, e) # {}

\* C27: once remove_document was handled for a document id, and until the
\* document is indexed again, a retrieve Command whose filter is that
\* document_id is answered with an empty list of results, also when the
\* same query was cached before the removal; and no key that was in the
\* cache before the removal is in it afterwards.
C27_RemovedDocumentNotRetrieved ==
    [][/\ (Handling("remove_document") /\ answer'.type = "response")
           => \A key \in DOMAIN query_cache : key \notin DOMAIN query_cache'
       /\ (/\ Handling("retrieve") /\ answer'.type = "response"
           /\ request'.filters.kind = "single"
           /\ request'.filters.ids[1] \in removed)
           => answer'.results = <<>>]_vars

\* C27 witness: a query filtered to a removed document was answered with
\* nothing while the store held another document with vectors.
C27_Witness ==
    /\ request.action = "retrieve" /\ answer.type = "response"
    /\ request.filters.kind = "single"
    /\ request.filters.ids[1] \in removed
    /\ answer.results = <<>>
    /\ \E e \in DocumentIds : VectorIds(vectors, e) # {}

\* The candidate documents of the query handled last: the listed ids that
\* are in the store, or every document of the store.
CandidateDocuments ==
    LET listed == {request.filters.ids[i] : i \in 1..Len(request.filters.ids)}
        indexed == {documents[i].document_id : i \in 1..Len(documents)} IN
    IF request.filters.kind \in {"single", "list"} THEN listed \cap indexed
    ELSE indexed

\* The chunks with an embedding in a set of documents, by document and id.
EmbeddedChunks(ids) ==
    UNION {{<<d, chunk.chunk_id>> :
               chunk \in {c \in StoredChunks(documents, d) :
                             c.embedding # {} /\ c.embedding # {<<>>}}} : d \in ids}

\* C28: retrieve(query, filters, k) returns exactly min(k, n) results, n the
\* number of chunks with an embedding in the candidate documents, each one
\* from a candidate document and in descending order of score; so with one
\* document of 3 chunks with distinct embeddings in the store,
\* retrieve("query", {}, 2) returns exactly 2 results from that document.
C28_ExactlyMinKN ==
    request.action = "retrieve" =>
        LET n == Cardinality(EmbeddedChunks(CandidateDocuments))
            results == answer.results IN
        /\ Len(results) = (IF request.k < n THEN request.k ELSE n)
        /\ \A i \in 1..Len(results) : results[i].document_id \in CandidateDocuments
        /\ \A i \in 1..Len(results), j \in 1..Len(results) :
              i < j => ScoreGe(results[i].score, results[j].score)

\* C30: the similarity of a vector of magnitude zero with any vector, as
\* the first (query) or the second (stored) argument, is exactly 0: nothing
\* is divided by zero and the result is a number.
C30_ZeroVectorScoresZero ==
    (/\ answer.type = "score"
     /\ (request.vec1 = <<0, 0>> \/ request.vec2 = <<0, 0>>))
        => /\ answer.score.den # 0
           /\ answer.score.num = 0

\* C30 witness: the similarity was computed for a zero query vector and a
\* stored vector that is not zero.
C30_Witness ==
    /\ answer.type = "score"
    /\ request.vec1 = <<0, 0>>
    /\ request.vec2 # <<0, 0>>

\* The Command of the scenario: session "s1", user "u1", a message that gives
\* role "user" and content "hello", no documents.
HelloCommand ==
    ProcessUserMessage({"message", "session_id", "user_id"}, BareMessage, "s1", "u1", <<>>)

\* C29: the Command process_user_message with session_id "s1", user_id "u1",
\* message {role: "user", content: "hello"} and no documents goes to the
\* dialogue agent, which takes the simple path and answers with a Response
\* (not an Error) whose content.message.role is "assistant".
C29_HelloGetsAssistantResponse ==
    /\ DispatchTarget(HelloCommand["action"]) = "dialogue"
    /\ command = HelloCommand =>
            /\ reply.type = "response"
            /\ reply.path = "simple"
            /\ reply.message.role = "assistant"

\* The same Command with the message as the chat interface sends it is
\* answered with the assistant's message on the simple path.
C29_FullMessageAnswered ==
    /\ command = ProcessUserMessage({"message", "session_id", "user_id"},
                                    FullMessage("u1", "s1"), "s1", "u1", <<>>)
    /\ reply.type = "response"
    /\ reply.path = "simple"
    /\ reply.message.role = "assistant"

\* The Errors that name a required field the Command r lacks.
MissingFieldErrors(r) ==
    CASE r.action = "retrieve" ->
            IF r.query = "" THEN {"Missing query parameter"} ELSE {}
      [] r.action = "index_document" ->
            (IF r.document_id = "" THEN {"Missing document_id parameter"} ELSE {})
            \cup (IF r.chunks = <<>> THEN {"Missing chunks parameter"} ELSE {})
      [] r.action = "remove_document" ->
            IF r.document_id = "" THEN {"Missing document_id parameter"} ELSE {}
      [] r.action = "route" ->
            (IF r.target_agent = "none" THEN {"missing_target_agent"} ELSE {})
            \cup (IF r.payload = <<>> THEN {"missing_payload"} ELSE {})
      [] OTHER -> {}

\* C31: a Command that lacks a required field of its action (retrieve without
\* query, index_document without document_id or chunks, remove_document
\* without document_id, route without target_agent or payload) is answered
\* with an Error correlated to the Command's id that names a missing field,
\* and handling it changes neither the index nor the cache nor the registry.
C31_MissingFieldGetsErrorNoChange ==
    [][(clock' = clock /\ MissingFieldErrors(request') # {}) =>
          /\ answer'.type = "error"
          /\ answer'.correlation_id = request'.id
          /\ answer'.error \in MissingFieldErrors(request')
          /\ UNCHANGED <<documents, vectors, query_cache, registered_agents>>]_vars

\* C31 witness: with a document indexed and a result cached, an
\* index_document Command without chunks was answered with the Error.
C31_Witness ==
    /\ request.action = "index_document"
    /\ request.document_id = "d1"
    /\ request.chunks = <<>>
    /\ answer.type = "error"
    /\ answer.error = "Missing chunks parameter"
    /\ answer.correlation_id = request.id
    /\ documents # <<>>
    /\ query_cache # <<>>

\* C32: send_message_and_wait registers the response handler under
\* message.id before it publishes the message: from the moment the request
\* enters publish until the wait returns the handler of the caller is in the
\* table under the request's id, so a Response/Error correlated to that id
\* whose publish looks the table up before the wait has returned (also while
\* the caller's own publish has not returned yet) sets the caller's event and
\* container, and the wait then returns that message instead of None.
C32_RegisteredBeforePublished ==
    [][\A t \in CallerThreads :
          /\ callerPc'[t] = "inflight" =>
                /\ callerMsg'[t].id \in DOMAIN response_handlers'
                /\ response_handlers'[callerMsg'[t].id] = t
          /\ \A p \in Threads :
                (/\ pub[p].phase = "check" /\ pub'[p].phase # "check"
                 /\ callerPc[t] = "inflight"
                 /\ pub[p].msg.correlation_id = callerMsg[t].id) =>
                    /\ event'[t]
                    /\ container'[t] = pub[p].msg
          /\ (callerPc[t] = "inflight" /\ callerPc'[t] = "finally" /\ event[t]) =>
                /\ result'[t] # None
                /\ result'[t] = container[t]
                /\ result'[t].correlation_id = callerMsg[t].id]_vars

\* C32 witness: a caller got the reply to its request while another
\* caller's request was outstanding.
C32_Witness ==
    \E t \in CallerThreads :
        /\ callerPc[t] \in {"finally", "done"}
        /\ result[t] # None
        /\ result[t].correlation_id = callerMsg[t].id
        /\ \E e \in invoked : e.via = "handler" /\ e.to = t /\ e.pending # {}

\* C33: a response handler is one-shot: for one registration under a
\* correlation id the broker invokes it at most once, so of two
\* Responses/Errors with the same correlation_id only the first reaches the
\* waiter, and the value the waiter returns is that first message.
C33_HandlerOneShot ==
    [][\A t \in CallerThreads :
          /\ \A p \in Threads :
                (/\ pub[p].phase = "check" /\ pub'[p].phase # "check"
                 /\ pub[p].msg.correlation_id \in DOMAIN response_handlers
                 /\ response_handlers[pub[p].msg.correlation_id] = t) => ~event[t]
          /\ event[t] => container'[t] = container[t]]_vars

\* C34: when the retrieval call the dialogue agent makes for a session with
\* documents returns nothing (timeout) or an Error, the agent falls back to
\* the simple path and answers the process_user_message Command with a
\* Response whose message has role "assistant" and is the one the simple path
\* writes; the failure never becomes an Error to the sender.
C34_RetrievalFailureFallsBack ==
    reply.retrieval \in {"none", "error"} =>
        /\ command["action"] = <<"process_user_message">>
        /\ sessions[command["session_id"]].document_ids # <<>>
        /\ reply.type = "response"
        /\ reply.path = "fallback"
        /\ reply.message.role = "assistant"
        /\ reply.message.content \in {GeneratedText, SorryText}
        /\ reply.message.document_ids = <<>>

\* C34 witness: the retrieval timed out for a session with a document and
\* the sender got the text of the model.
C34_Witness ==
    /\ reply.retrieval = "none"
    /\ reply.type = "response"
    /\ reply.message.role = "assistant"
    /\ reply.message.content = GeneratedText
    /\ sessions[command["session_id"]].document_ids = <<"d1">>

\* C35: at any time at most one processing loop per agent dequeues from its
\* inbox (has found the running flag set and is in inbox.get), whatever
\* start() and stop() calls were made: also when stop() returned after its
\* bounded join with the handler still running and start() was called then,
\* and when two threads call start() at the same time.
C35_OneLoopDequeues ==
    \A a \in Agents :
        Cardinality({l \in LiveLoops(a) : loopPc[l] = "get"}) <= 1

\* C36: publish never raises to its caller, also when a Response/Error goes
\* to a registered response handler and that handler raises: the publish
\* call of the responding agent returns normally.  (The broker lock is held
\* in `with` blocks, which the steps of publish stand for: it is released
\* however a block is left.)
C36_PublishNeverRaises ==
    \A r \in returns : ~r.exc

\* How often x occurs in the sequence q.
Count(q, x) == Cardinality({i \in 1..Len(q) : q[i] = x})

\* The ids of the messages in an inbox, in order.
IdsOf(queue) == [i \in 1..Len(queue) |-> queue[i].id]

\* The loops of agent a that hold the message with id x, dequeued and on its
\* way into handle_message.
Holding(a, x) ==
    {l \in LoopThreads : Owner(l) = a /\ loopPc[l] = "handle" /\ cur[l].id = x}

ByOwner(c) ==
    /\ "session_id" \in DOMAIN c /\ "user_id" \in DOMAIN c
    /\ c["session_id"] \in DOMAIN sessions
    /\ sessions[c["session_id"]].user_id = c["user_id"]

\* C38: the dialogue agent returns a session (get_session) or deletes it
\* (delete_session) only when the request's user_id equals the session's
\* owner; every other request (another user_id, or no user_id at all) is
\* answered with an Error and leaves the session map unchanged.
C38_OnlyOwnerGetsOrDeletes ==
    [][command'["action"] \in {<<"get_session">>, <<"delete_session">>}
       => IF ByOwner(command')
          THEN reply'.type = "response"
          ELSE reply'.type = "error" /\ sessions' = sessions]_vars

\* The history of a session of the store, empty when it is not stored.
HistoryOf(store, session_id) ==
    IF session_id \in DOMAIN store THEN store[session_id].messages ELSE <<>>

\* C39: process_user_message changes the session store atomically with its
\* outcome: when it answers with a Response the history of the session has
\* grown by exactly two entries, the user message followed by the assistant
\* message; when it answers with an Error (missing field, invalid message)
\* the session map and the history of every session are unchanged.
C39_StoreChangesWithOutcome ==
    [][command'["action"] = <<"process_user_message">>
       => /\ reply'.type = "error" => sessions' = sessions
          /\ reply'.type = "response"
             => LET session_id == command'["session_id"]
                    old == HistoryOf(sessions, session_id)
                    new == HistoryOf(sessions', session_id)
                IN  /\ Len(new) = Len(old) + 2
                    /\ SubSeq(new, 1, Len(old)) = old
                    /\ new[Len(old) + 1].role = "user"
                    /\ new[Len(old) + 2] = reply'.message
                    /\ \A s \in DOMAIN sessions \ {session_id} :
                          s \in DOMAIN sessions' /\ sessions'[s] = sessions[s]]_vars

\* C40: update_state(key, value) always terminates and releases the state
\* lock: every call of the state manager returns, so no update_state blocks
\* its own thread or another thread forever, and when update_state has
\* returned the value under key is the merged dict (two dicts), the
\* concatenated list (two lists), or the new value otherwise.
C40_UpdateStateTerminates ==
    /\ \A t \in StateThreads : (frames[t] # <<>>) ~> (frames[t] = <<>>)
    /\ [][\A t \in StateThreads :
             (frames[t] # <<>> /\ frames'[t] = <<>>
                 /\ frames[t][1].op = "update_state" /\ ~frames[t][1].exc)
             => /\ lock' = "free"
                /\ GetPath(state', frames[t][1].key)
                      = Merged(frames[t][1].got, frames[t][1].value)]_vars

====
